---- MODULE Spec2Model ----
(***************************************************************************)
(* Retrieval and ranking subsystem of the Document Compliance Auditor:     *)
(* the bounded cache (cache_manager.py), the embedding generator           *)
(* (embeddings.py), the retrieval engine over the vector store             *)
(* (retrieval.py, vector_db.py), and the indexing of documents into the    *)
(* store (document_processor.py, database_manager.py).                     *)
(*                                                                         *)
(* Texts are sequences of one-character strings, so that strip(), len()    *)
(* and slicing are computed as Python computes them; the documents given   *)
(* to the retrieval engine are long and are kept as runs of characters.    *)
(* Python's None is the string "None"; it is never a text, a key or a      *)
(* vector of the model.                                                    *)
(***************************************************************************)
EXTENDS Integers, Sequences, FiniteSets, TLC

VARIABLES
    max_size,            \* CacheManager.max_size
    cm_embedding_cache,  \* CacheManager._embedding_cache, an insertion-ordered dict
    cm_search_cache,     \* CacheManager._search_cache, an insertion-ordered dict
    cm_regulation_cache, \* CacheManager._regulation_cache
    cm_ret,              \* the last CacheManager call and what it returned (the text of a get)
    cm_hist_e,           \* the texts set in the embedding namespace since it was last empty
    cm_hist_s,           \* the same for the search namespace
    eg_cache,            \* EmbeddingGenerator._embedding_cache, a dict keyed by the text
    eg_ret,              \* the EmbeddingGenerator call that just returned ("idle" between
                         \* calls): its arguments, what the provider was asked and
                         \* answered in it, and what it returned
    eg_first,            \* per text, the provider's answer to the first successful
                         \* generate_embedding(text, use_cache=True) since the last clear_cache
    vs_docs,             \* the chunks of the vector store's collection, in the order added
    vs_tiebreak,         \* how the store orders chunks at the same distance from a query
    vs_next_id,          \* the number of the next identifier the store hands out
    vs_ret,              \* the VectorDatabase call that just returned ("idle" between
                         \* calls): its arguments, the store calls made in it and
                         \* what it returned
    rt_ret,              \* the RetrievalSystem call that just returned ("idle" between
                         \* calls): its arguments, the store calls made in it, what the
                         \* store answered and what the call returned
    dp_ret,              \* the DocumentProcessor call that just returned ("idle"
                         \* between calls): its arguments and what it returned
    dm_ret,              \* the DatabaseManager call that just returned ("idle"
                         \* between calls): its arguments and what it returned
    cm_writers           \* the threads that run set_embedding or set_search_result
                         \* on the CacheManager step by step: where each is in the
                         \* method, and whether two were ever in it at once

cacheVars == <<max_size, cm_embedding_cache, cm_search_cache, cm_regulation_cache,
               cm_ret, cm_hist_e, cm_hist_s>>

embedVars == <<eg_cache, eg_ret, eg_first>>

storeVars == <<vs_docs, vs_tiebreak, vs_next_id, vs_ret>>

retrievalVars == <<storeVars, rt_ret>>

indexingVars == <<dp_ret, dm_ret>>

writerVars == <<cm_writers>>

\* what a method of one component leaves alone: the other components
nonCacheVars == <<embedVars, retrievalVars, indexingVars, writerVars>>

nonEmbedVars == <<cacheVars, retrievalVars, indexingVars, writerVars>>

nonRetrievalVars == <<cacheVars, embedVars, indexingVars, writerVars>>

vars == <<max_size, cm_embedding_cache, cm_search_cache, cm_regulation_cache,
          cm_ret, cm_hist_e, cm_hist_s, eg_cache, eg_ret, eg_first,
          vs_docs, vs_tiebreak, vs_next_id, vs_ret, rt_ret, dp_ret, dm_ret,
          cm_writers>>

None == "None"

(***************************************************************************)
(* Bounds of the model.                                                    *)
(***************************************************************************)
MaxSize == 2        \* max_size ranges over 1..MaxSize
MaxBatchLen == 3    \* generate_embeddings_batch gets at most this many texts
MaxStore == 4       \* the collection holds at most this many chunks
MaxCorpus == 3      \* and at most this many where whole retrievals are run
MaxK == 3           \* k ranges over 1..MaxK
MaxAddLen == 3      \* add_documents gets at most this many documents

Range(s) == {s[i] : i \in 1..Len(s)}

(***************************************************************************)
(* An insertion-ordered dict (Python 3.7+) is a sequence of [key, value]   *)
(* records with pairwise distinct keys, oldest insertion first.            *)
(***************************************************************************)
DictKeys(d) == {d[i].key : i \in 1..Len(d)}

DictLen(d) == Len(d)

DictGet(d, k) ==
    IF k \in DictKeys(d)
    THEN (CHOOSE e \in Range(d) : e.key = k).value
    ELSE None

\* d[k] = v : an existing key keeps its position, a new key goes last
DictSet(d, k, v) ==
    IF k \in DictKeys(d)
    THEN [i \in 1..Len(d) |-> IF d[i].key = k THEN [key |-> k, value |-> v] ELSE d[i]]
    ELSE Append(d, [key |-> k, value |-> v])

\* first_key = next(iter(d))
DictFirstKey(d) == d[1].key

\* del d[k]
DictDel(d, k) == SelectSeq(d, LAMBDA e : e.key # k)

(***************************************************************************)
(* CacheManager                                                            *)
(***************************************************************************)
\* the texts the cache is driven with
CacheTexts == { <<"a">>, <<"b">>, <<"a", "b">> }

\* the embeddings and the result lists the cache is driven with
CacheValues == {"v1", "v2"}

CacheResults == {"r1"}

CacheTypes == {"embedding", "search", "regulation", None, "all"}

\* hashlib.md5(text.encode()).hexdigest(): a digest of the text's characters,
\* collision-free on the texts of the model
_generate_key(text) == <<"md5">> \o text

\* an insert that evicts only once the bound is already exceeded
CacheInsert_LateEviction(cache, text, value) ==
    LET evicted == IF DictLen(cache) > max_size
                   THEN DictDel(cache, DictFirstKey(cache))
                   ELSE cache
    IN  DictSet(evicted, _generate_key(text), value)

\* the body shared by set_embedding and set_search_result
CacheInsert(cache, text, value) ==
    LET evicted == IF DictLen(cache) >= max_size
                   THEN DictDel(cache, DictFirstKey(cache))
                   ELSE cache
    IN  DictSet(evicted, _generate_key(text), value)

CacheLookup(cache, text) == DictGet(cache, _generate_key(text))

\* the stats dictionary of get_cache_stats
CacheStats ==
    [embedding_cache_size |-> DictLen(cm_embedding_cache),
     search_cache_size |-> DictLen(cm_search_cache),
     regulation_cache_size |-> DictLen(cm_regulation_cache),
     max_size |-> max_size]

\* The history of a namespace is followed while the texts set in it are
\* distinct and at most max_size + 1; after that it is no longer tracked
\* until the namespace is cleared.  read_first tells that the first text
\* set was looked up before a later set.
EmptyHist == [tracked |-> TRUE, items |-> <<>>, read_first |-> FALSE]

HistAdd(hist, text) ==
    IF ~hist.tracked THEN hist
    ELSE IF \/ Len(hist.items) >= max_size + 1
            \/ text \in Range(hist.items)
         THEN [tracked |-> FALSE, items |-> <<>>, read_first |-> FALSE]
         ELSE [hist EXCEPT !.items = Append(hist.items, text)]

HistRead(hist, text) ==
    IF hist.tracked /\ Len(hist.items) \in 1..max_size /\ hist.items[1] = text
    THEN [hist EXCEPT !.read_first = TRUE]
    ELSE hist

\* a least-recently-used cache would move the key read to the young end
get_embedding_LRU(text) ==
    /\ cm_ret' = [op |-> "get_embedding", text |-> text,
                  value |-> CacheLookup(cm_embedding_cache, text)]
    /\ cm_embedding_cache' =
           IF _generate_key(text) \in DictKeys(cm_embedding_cache)
           THEN Append(DictDel(cm_embedding_cache, _generate_key(text)),
                       [key |-> _generate_key(text),
                        value |-> CacheLookup(cm_embedding_cache, text)])
           ELSE cm_embedding_cache
    /\ cm_hist_e' = HistRead(cm_hist_e, text)
    /\ UNCHANGED <<max_size, cm_search_cache, cm_regulation_cache, cm_hist_s>>
    /\ UNCHANGED nonCacheVars

get_embedding(text) ==
    /\ cm_ret' = [op |-> "get_embedding", text |-> text,
                  value |-> CacheLookup(cm_embedding_cache, text)]
    /\ cm_hist_e' = HistRead(cm_hist_e, text)
    /\ UNCHANGED <<max_size, cm_embedding_cache, cm_search_cache, cm_regulation_cache,
                   cm_hist_s>>
    /\ UNCHANGED nonCacheVars

set_embedding(text, embedding) ==
    /\ cm_embedding_cache' = CacheInsert(cm_embedding_cache, text, embedding)
    /\ cm_hist_e' = HistAdd(cm_hist_e, text)
    /\ cm_ret' = [op |-> "set_embedding", text |-> <<>>, value |-> None]
    /\ UNCHANGED <<max_size, cm_search_cache, cm_regulation_cache, cm_hist_s>>
    /\ UNCHANGED nonCacheVars

get_search_result(query) ==
    /\ cm_ret' = [op |-> "get_search_result", text |-> query,
                  value |-> CacheLookup(cm_search_cache, query)]
    /\ cm_hist_s' = HistRead(cm_hist_s, query)
    /\ UNCHANGED <<max_size, cm_embedding_cache, cm_search_cache, cm_regulation_cache,
                   cm_hist_e>>
    /\ UNCHANGED nonCacheVars

set_search_result(query, results) ==
    /\ cm_search_cache' = CacheInsert(cm_search_cache, query, results)
    /\ cm_hist_s' = HistAdd(cm_hist_s, query)
    /\ cm_ret' = [op |-> "set_search_result", text |-> <<>>, value |-> None]
    /\ UNCHANGED <<max_size, cm_embedding_cache, cm_regulation_cache, cm_hist_e>>
    /\ UNCHANGED nonCacheVars

clear_cache(cache_type) ==
    /\ cm_embedding_cache' =
           IF cache_type \in {"search", "regulation"} THEN cm_embedding_cache ELSE <<>>
    /\ cm_search_cache' =
           IF cache_type \in {"embedding", "regulation"} THEN cm_search_cache ELSE <<>>
    /\ cm_regulation_cache' =
           IF cache_type \in {"embedding", "search"} THEN cm_regulation_cache ELSE <<>>
    /\ cm_hist_e' = IF cache_type \in {"search", "regulation"} THEN cm_hist_e ELSE EmptyHist
    /\ cm_hist_s' = IF cache_type \in {"embedding", "regulation"} THEN cm_hist_s ELSE EmptyHist
    /\ cm_ret' = [op |-> "clear_cache", text |-> <<>>, value |-> None]
    /\ UNCHANGED max_size
    /\ UNCHANGED nonCacheVars

get_cache_stats ==
    /\ cm_ret' = [op |-> "get_cache_stats", text |-> <<>>, value |-> CacheStats]
    /\ UNCHANGED <<max_size, cm_embedding_cache, cm_search_cache, cm_regulation_cache,
                   cm_hist_e, cm_hist_s>>
    /\ UNCHANGED nonCacheVars

\* CacheManager(max_size)
CacheInit ==
    /\ max_size \in 1..MaxSize
    /\ cm_embedding_cache = <<>>
    /\ cm_search_cache = <<>>
    /\ cm_regulation_cache = <<>>
    /\ cm_ret = [op |-> "init", text |-> <<>>, value |-> None]
    /\ cm_hist_e = EmptyHist
    /\ cm_hist_s = EmptyHist

CacheNext ==
    \/ \E t \in CacheTexts : get_embedding(t)
    \/ \E t \in CacheTexts, v \in CacheValues : set_embedding(t, v)
    \/ \E t \in CacheTexts : get_search_result(t)
    \/ \E t \in CacheTexts, r \in CacheResults : set_search_result(t, r)
    \/ \E c \in CacheTypes : clear_cache(c)
    \/ get_cache_stats

(***************************************************************************)
(* Two threads in set_embedding or set_search_result of one CacheManager.  *)
(* A thread can be suspended between any two steps of the method: the      *)
(* reading of the size, the reading of the oldest key, the deletion and    *)
(* the insertion are steps of their own.                                   *)
(***************************************************************************)
Writers == {1, 2}

Namespaces == {"embedding", "search"}

WriterIdle == [pc |-> "idle"]

WritersInit ==
    cm_writers = [threads |-> [t \in Writers |-> WriterIdle], overlapped |-> FALSE]

\* the dict of a namespace
NamespaceCache(ns) == IF ns = "embedding" THEN cm_embedding_cache ELSE cm_search_cache

\* the step of thread t leaves the namespace ns as cache and the thread as
\* next; the histories of the sequential calls are no longer followed
WriterStep(t, ns, cache, next) ==
    /\ cm_embedding_cache' = IF ns = "embedding" THEN cache ELSE cm_embedding_cache
    /\ cm_search_cache' = IF ns = "search" THEN cache ELSE cm_search_cache
    /\ cm_writers' = [cm_writers EXCEPT !.threads[t] = next]
    /\ cm_hist_e' = [tracked |-> FALSE, items |-> <<>>, read_first |-> FALSE]
    /\ cm_hist_s' = [tracked |-> FALSE, items |-> <<>>, read_first |-> FALSE]
    /\ UNCHANGED <<max_size, cm_regulation_cache, cm_ret>>
    /\ UNCHANGED <<embedVars, retrievalVars, indexingVars>>

\* thread t enters set_embedding(text, value) or set_search_result
writer_call(t, ns, text, value) ==
    /\ cm_writers.threads[t].pc = "idle"
    /\ cm_writers' =
           [threads |-> [cm_writers.threads EXCEPT ![t] =
                            [pc |-> "check", ns |-> ns, text |-> text, value |-> value]],
            overlapped |-> \/ cm_writers.overlapped
                           \/ \E u \in Writers \ {t} : cm_writers.threads[u].pc # "idle"]
    /\ UNCHANGED cacheVars
    /\ UNCHANGED <<embedVars, retrievalVars, indexingVars>>

\* a test that lets the namespace grow past max_size before it evicts
WriterCheck_LateEviction(w) ==
    [w EXCEPT !.pc = IF DictLen(NamespaceCache(w.ns)) > max_size
                     THEN "first_key" ELSE "insert"]

\* if len(cache) >= self.max_size
WriterCheck(w) ==
    [w EXCEPT !.pc = IF DictLen(NamespaceCache(w.ns)) >= max_size
                     THEN "first_key" ELSE "insert"]

writer_check(t) ==
    /\ cm_writers.threads[t].pc = "check"
    /\ WriterStep(t, cm_writers.threads[t].ns,
                  NamespaceCache(cm_writers.threads[t].ns),
                  WriterCheck(cm_writers.threads[t]))

\* first_key = next(iter(cache)): StopIteration when the dict is empty
WriterFirstKey(w) ==
    IF NamespaceCache(w.ns) = <<>>
    THEN [pc |-> "done", ns |-> w.ns, raised |-> "StopIteration"]
    ELSE [pc |-> "del", ns |-> w.ns, text |-> w.text, value |-> w.value,
          first_key |-> DictFirstKey(NamespaceCache(w.ns))]

writer_first_key(t) ==
    /\ cm_writers.threads[t].pc = "first_key"
    /\ WriterStep(t, cm_writers.threads[t].ns,
                  NamespaceCache(cm_writers.threads[t].ns),
                  WriterFirstKey(cm_writers.threads[t]))

\* del cache[first_key]: KeyError when the key is no longer in the dict
WriterDel(w) ==
    IF w.first_key \in DictKeys(NamespaceCache(w.ns))
    THEN [cache |-> DictDel(NamespaceCache(w.ns), w.first_key),
          next |-> [pc |-> "insert", ns |-> w.ns, text |-> w.text, value |-> w.value]]
    ELSE [cache |-> NamespaceCache(w.ns),
          next |-> [pc |-> "done", ns |-> w.ns, raised |-> "KeyError"]]

writer_del(t) ==
    /\ cm_writers.threads[t].pc = "del"
    /\ WriterStep(t, cm_writers.threads[t].ns,
                  WriterDel(cm_writers.threads[t]).cache,
                  WriterDel(cm_writers.threads[t]).next)

\* key = self._generate_key(text); cache[key] = value
writer_insert(t) ==
    /\ cm_writers.threads[t].pc = "insert"
    /\ WriterStep(t, cm_writers.threads[t].ns,
                  DictSet(NamespaceCache(cm_writers.threads[t].ns),
                          _generate_key(cm_writers.threads[t].text),
                          cm_writers.threads[t].value),
                  [pc |-> "done", ns |-> cm_writers.threads[t].ns, raised |-> None])

\* the method is left, by return or by the exception
writer_return(t) ==
    /\ cm_writers.threads[t].pc = "done"
    /\ WriterStep(t, cm_writers.threads[t].ns,
                  NamespaceCache(cm_writers.threads[t].ns), WriterIdle)

WritersNext ==
    \/ \E t \in Writers, ns \in Namespaces, text \in CacheTexts :
           writer_call(t, ns, text, "v1")
    \/ \E t \in Writers : writer_check(t)
    \/ \E t \in Writers : writer_first_key(t)
    \/ \E t \in Writers : writer_del(t)
    \/ \E t \in Writers : writer_insert(t)
    \/ \E t \in Writers : writer_return(t)

(***************************************************************************)
(* EmbeddingGenerator                                                      *)
(***************************************************************************)
EmbeddingDim == 768

\* A vector is kept as the list expression that builds it: [x] * n is the
\* record [item |-> x, times |-> n], the list of n components equal to x.
Repeat(x, n) == [item |-> x, times |-> n]

\* [0.0] * 768
ZeroVector == Repeat(0, EmbeddingDim)

\* the vectors the external provider answers with: of the fixed dimension,
\* told apart by their component
ProviderVector(c) == Repeat(c, EmbeddingDim)

ProviderChoices == {1, 2}

Whitespace == {" ", "\t", "\n"}

\* the first position that holds no whitespace; the text has one
FirstNonSpace(text) ==
    CHOOSE i \in 1..Len(text) :
        text[i] \notin Whitespace /\ \A j \in 1..(i - 1) : text[j] \in Whitespace

\* the last position that holds no whitespace; the text has one
LastNonSpace(text) ==
    CHOOSE i \in 1..Len(text) :
        text[i] \notin Whitespace /\ \A j \in (i + 1)..Len(text) : text[j] \in Whitespace

\* str.strip(): the text without its leading and trailing whitespace
strip(text) ==
    IF \A i \in 1..Len(text) : text[i] \in Whitespace THEN <<>>
    ELSE SubSeq(text, FirstNonSpace(text), LastNonSpace(text))

\* a check of the text alone, which lets a whitespace-only text through
NotTextOnly(text) == text = <<>>

\* not text or not text.strip()
NotTextOrBlank(text) == text = <<>> \/ strip(text) = <<>>

\* the texts generate_embedding is called with
EmbedTexts == { <<>>, <<" ">>, <<" ", "\t">>, <<"a">>, <<"b">> }

\* the texts generate_embeddings_batch is called with
BatchTexts == { <<"a">>, <<"b">> }

BatchInputs == UNION {[1..n -> BatchTexts] : n \in 0..MaxBatchLen}

\* self._embedding_cache[text] = embedding
CachePut(cache, text, embedding) == (text :> embedding) @@ cache

\* generate_embedding without line 76: the provider's answer is not stored
EmbedOne_NoStore(text, use_cache, cache, ok, c) ==
    IF NotTextOrBlank(text)
    THEN [result |-> ZeroVector, cache |-> cache, asked |-> FALSE, answer |-> 0,
          failed |-> FALSE]
    ELSE IF use_cache /\ text \in DOMAIN cache
    THEN [result |-> cache[text], cache |-> cache, asked |-> FALSE, answer |-> 0,
          failed |-> FALSE]
    ELSE IF ok
    THEN [result |-> ProviderVector(c), cache |-> cache,
          asked |-> TRUE, answer |-> c, failed |-> FALSE]
    ELSE [result |-> ZeroVector, cache |-> cache, asked |-> TRUE, answer |-> 0,
          failed |-> TRUE]

\* generate_embedding that keeps the zero vector of a failure in the cache
EmbedOne_CacheFallback(text, use_cache, cache, ok, c) ==
    IF NotTextOrBlank(text)
    THEN [result |-> ZeroVector, cache |-> cache, asked |-> FALSE, answer |-> 0,
          failed |-> FALSE]
    ELSE IF use_cache /\ text \in DOMAIN cache
    THEN [result |-> cache[text], cache |-> cache, asked |-> FALSE, answer |-> 0,
          failed |-> FALSE]
    ELSE IF ok
    THEN [result |-> ProviderVector(c),
          cache |-> IF use_cache THEN CachePut(cache, text, ProviderVector(c)) ELSE cache,
          asked |-> TRUE, answer |-> c, failed |-> FALSE]
    ELSE [result |-> ZeroVector,
          cache |-> IF use_cache THEN CachePut(cache, text, ZeroVector) ELSE cache,
          asked |-> TRUE, answer |-> 0, failed |-> TRUE]

\* The body of generate_embedding; ok and c are what embed_query does when
\* it is called: it answers ProviderVector(c), or it raises.
EmbedOne(text, use_cache, cache, ok, c) ==
    IF NotTextOrBlank(text)
    THEN [result |-> ZeroVector, cache |-> cache, asked |-> FALSE, answer |-> 0,
          failed |-> FALSE]
    ELSE IF use_cache /\ text \in DOMAIN cache
    THEN [result |-> cache[text], cache |-> cache, asked |-> FALSE, answer |-> 0,
          failed |-> FALSE]
    ELSE IF ok
    THEN [result |-> ProviderVector(c),
          cache |-> IF use_cache THEN CachePut(cache, text, ProviderVector(c)) ELSE cache,
          asked |-> TRUE, answer |-> c, failed |-> FALSE]
    ELSE [result |-> ZeroVector, cache |-> cache, asked |-> TRUE, answer |-> 0,
          failed |-> TRUE]

generate_embedding(text, use_cache, ok, c) ==
    \E r \in {EmbedOne(text, use_cache, eg_cache, ok, c)} :
        /\ eg_ret.op = "idle"
        /\ eg_cache' = r.cache
        /\ eg_ret' = [op |-> "generate_embedding", texts |-> <<text>>,
                      use_cache |-> use_cache, batch_size |-> 1,
                      results |-> <<r.result>>,
                      asked |-> <<r.asked>>, answer |-> <<r.answer>>,
                      failed |-> <<r.failed>>,
                      prior |-> use_cache /\ eg_first[text] # 0,
                      cache_changed |-> r.cache # eg_cache]
        /\ eg_first' = IF use_cache /\ r.asked /\ ~r.failed /\ eg_first[text] = 0
                       THEN [eg_first EXCEPT ![text] = r.answer]
                       ELSE eg_first
        /\ UNCHANGED nonEmbedVars

Min(a, b) == IF a <= b THEN a ELSE b

\* for idx, text in enumerate(batch): the positions of the sub-batch that
\* are not served from the cache, in order
UncachedIndices(batch, use_cache, cache) ==
    SelectSeq([idx \in 1..Len(batch) |-> idx],
              LAMBDA idx : ~(use_cache /\ batch[idx] \in DOMAIN cache))

CachedIndices(batch, use_cache, cache) ==
    SelectSeq([idx \in 1..Len(batch) |-> idx],
              LAMBDA idx : use_cache /\ batch[idx] \in DOMAIN cache)

\* for text, embedding in zip(uncached, batch_embeddings): cache[text] = embedding
RECURSIVE CacheFill(_, _, _)
CacheFill(cache, uncached, batch_embeddings) ==
    IF uncached = <<>> \/ batch_embeddings = <<>> THEN cache
    ELSE CacheFill(CachePut(cache, Head(uncached), Head(batch_embeddings)),
                   Tail(uncached), Tail(batch_embeddings))

\* [[0.0] * 768] * len(uncached)
FallbackEmbeddings(n) == [j \in 1..n |-> ZeroVector]

\* a reassembly that puts the cached vectors first and the new ones after them
Reconstruct_CachedFirst(n, uncached_indices, batch_embeddings, cached) ==
    [idx \in 1..n |-> IF idx <= Len(cached) THEN cached[idx]
                      ELSE batch_embeddings[idx - Len(cached)]]

\* Reconstruct batch results: position idx takes the next vector of
\* batch_embeddings when idx is in uncached_indices, else the next of cached
Reconstruct(n, uncached_indices, batch_embeddings, cached) ==
    [idx \in 1..n |->
        IF idx \in Range(uncached_indices)
        THEN batch_embeddings[Cardinality({u \in Range(uncached_indices) : u <= idx})]
        ELSE cached[Cardinality({i \in 1..idx : i \notin Range(uncached_indices)})]]

\* One pass of the loop over range(0, len(texts), batch_size): the sub-batch
\* that starts at position st (counted from 1).  pv[i] is the vector the
\* provider answers for the text at position i of texts when it is asked
\* for it, fl[b] tells that embed_documents raises in sub-batch b.
SubBatch(texts, st, batch_size, use_cache, cache, pv, fl) ==
    LET batch == SubSeq(texts, st, Min(st + batch_size - 1, Len(texts)))
        b == ((st - 1) \div batch_size) + 1
        uncached_indices == UncachedIndices(batch, use_cache, cache)
        cached_indices == CachedIndices(batch, use_cache, cache)
        cached == [j \in 1..Len(cached_indices) |-> cache[batch[cached_indices[j]]]]
        uncached == [j \in 1..Len(uncached_indices) |-> batch[uncached_indices[j]]]
        raised == uncached # <<>> /\ fl[b]
        batch_embeddings ==
            IF uncached = <<>> THEN <<>>
            ELSE IF raised THEN FallbackEmbeddings(Len(uncached))
            ELSE [j \in 1..Len(uncached) |->
                     ProviderVector(pv[st - 1 + uncached_indices[j]])]
    IN  [results |-> Reconstruct(Len(batch), uncached_indices, batch_embeddings, cached),
         cache |-> IF uncached # <<>> /\ ~raised /\ use_cache
                   THEN CacheFill(cache, uncached, batch_embeddings)
                   ELSE cache,
         asked |-> [idx \in 1..Len(batch) |-> idx \in Range(uncached_indices)],
         answer |-> [idx \in 1..Len(batch) |->
                        IF idx \in Range(uncached_indices) /\ ~raised
                        THEN pv[st - 1 + idx] ELSE 0],
         failed |-> raised]

\* a loop that stops at the first sub-batch whose provider call raises
RECURSIVE BatchLoop_StopOnFailure(_, _, _, _, _, _, _, _)
BatchLoop_StopOnFailure(texts, st, batch_size, use_cache, cache, pv, fl, acc) ==
    IF st > Len(texts) THEN [acc EXCEPT !.cache = cache]
    ELSE LET r == SubBatch(texts, st, batch_size, use_cache, cache, pv, fl)
             next == [results |-> acc.results \o r.results,
                      asked |-> acc.asked \o r.asked,
                      answer |-> acc.answer \o r.answer,
                      failed |-> Append(acc.failed, r.failed),
                      cache |-> r.cache]
         IN  IF r.failed THEN next
             ELSE BatchLoop_StopOnFailure(texts, st + batch_size, batch_size, use_cache,
                                          r.cache, pv, fl, next)

\* for i in range(0, len(texts), batch_size): ... results.extend(batch_results)
RECURSIVE BatchLoop(_, _, _, _, _, _, _, _)
BatchLoop(texts, st, batch_size, use_cache, cache, pv, fl, acc) ==
    IF st > Len(texts) THEN [acc EXCEPT !.cache = cache]
    ELSE LET r == SubBatch(texts, st, batch_size, use_cache, cache, pv, fl)
         IN  BatchLoop(texts, st + batch_size, batch_size, use_cache, r.cache, pv, fl,
                       [results |-> acc.results \o r.results,
                        asked |-> acc.asked \o r.asked,
                        answer |-> acc.answer \o r.answer,
                        failed |-> Append(acc.failed, r.failed),
                        cache |-> r.cache])

generate_embeddings_batch(texts, use_cache, batch_size, pv, fl) ==
    \E r \in {BatchLoop(texts, 1, batch_size, use_cache, eg_cache, pv, fl,
                       [results |-> <<>>, asked |-> <<>>, answer |-> <<>>,
                        failed |-> <<>>, cache |-> eg_cache])} :
        /\ eg_ret.op = "idle"
        /\ eg_cache' = r.cache
        /\ eg_ret' = [op |-> "generate_embeddings_batch", texts |-> texts,
                      use_cache |-> use_cache, batch_size |-> batch_size,
                      results |-> r.results,
                      asked |-> r.asked, answer |-> r.answer, failed |-> r.failed,
                      prior |-> FALSE,
                      cache_changed |-> r.cache # eg_cache]
        /\ UNCHANGED eg_first
        /\ UNCHANGED nonEmbedVars

\* EmbeddingGenerator.clear_cache
eg_clear_cache ==
    /\ eg_ret.op = "idle"
    /\ eg_cache' = <<>>
    /\ eg_ret' = [op |-> "clear_cache", texts |-> <<>>, use_cache |-> FALSE,
                  batch_size |-> 1, results |-> <<>>, asked |-> <<>>, answer |-> <<>>,
                  failed |-> <<>>, prior |-> FALSE, cache_changed |-> eg_cache # <<>>]
    /\ eg_first' = [t \in EmbedTexts |-> 0]
    /\ UNCHANGED nonEmbedVars

\* no call of the EmbeddingGenerator is in progress
EgIdle == [op |-> "idle", texts |-> <<>>, use_cache |-> FALSE,
           batch_size |-> 1, results |-> <<>>, asked |-> <<>>, answer |-> <<>>,
           failed |-> <<>>, prior |-> FALSE, cache_changed |-> FALSE]

\* the caller takes what the call returned; the calls are synchronous, so
\* the next call starts only after that
eg_return ==
    /\ eg_ret.op # "idle"
    /\ eg_ret' = EgIdle
    /\ UNCHANGED <<eg_cache, eg_first>>
    /\ UNCHANGED nonEmbedVars

EmbedInit ==
    /\ eg_cache = <<>>
    /\ eg_ret = EgIdle
    /\ eg_first = [t \in EmbedTexts |-> 0]

EmbedNext ==
    \/ /\ eg_ret.op = "idle"
       /\ \E t \in EmbedTexts, uc \in BOOLEAN, ok \in BOOLEAN, c \in ProviderChoices :
              generate_embedding(t, uc, ok, c)
    \/ /\ eg_ret.op = "idle"
       /\ \E texts \in BatchInputs, uc \in BOOLEAN, batch_size \in 1..MaxBatchLen :
             \E pv \in [1..Len(texts) -> ProviderChoices],
                fl \in [1..((Len(texts) + batch_size - 1) \div batch_size) -> BOOLEAN] :
                  generate_embeddings_batch(texts, uc, batch_size, pv, fl)
    \/ eg_clear_cache
    \/ eg_return

(***************************************************************************)
(* VectorDatabase and RetrievalSystem                                      *)
(***************************************************************************)
QueryLimit == 500            \* the leading characters of a document that make the query
KeywordK == 10               \* the k of the semantic search behind _keyword_search
DefaultMinScore == 0         \* min_score: float = 0.0
DefaultSemanticWeight == 7   \* semantic_weight: float = 0.7, in tenths
DefaultKeywordWeight == 3    \* keyword_weight: float = 0.3, in tenths

\* Documents are long.  The RetrievalSystem's texts are kept as their runs
\* of equal characters: <<Repeat("a", 500), Repeat("b", 1)>> is "a" 500
\* times and then one "b".
Runs(c, n) == IF n = 0 THEN <<>> ELSE <<Repeat(c, n)>>

\* len(text)
RECURSIVE TextLen(_)
TextLen(text) ==
    IF text = <<>> THEN 0 ELSE Head(text).times + TextLen(Tail(text))

\* text[:n]
RECURSIVE TextPrefix(_, _)
TextPrefix(text, n) ==
    IF text = <<>> \/ n <= 0 THEN <<>>
    ELSE IF Head(text).times >= n THEN <<Repeat(Head(text).item, n)>>
    ELSE <<Head(text)>> \o TextPrefix(Tail(text), n - Head(text).times)

\* text.strip(): from the first to the last run that is not whitespace
TextStrip(text) ==
    LET kept == {i \in 1..Len(text) : text[i].item \notin Whitespace}
    IN  IF kept = {} THEN <<>>
        ELSE SubSeq(text, CHOOSE i \in kept : \A j \in kept : i <= j,
                          CHOOSE i \in kept : \A j \in kept : j <= i)

\* a check of the query alone, which lets a whitespace-only query through
BlankText_EmptyOnly(text) == text = <<>>

\* not query or not query.strip()
BlankText(text) == text = <<>> \/ TextStrip(text) = <<>>

\* the documents and queries the retrieval is driven with, by name
DocumentNames == {"empty", "space", "a499b", "a500", "a500b", "sp500", "sp500a"}

Document(name) ==
    CASE name = "empty"  -> <<>>
      [] name = "space"  -> Runs(" ", 1)
      [] name = "a499b"  -> Runs("a", QueryLimit - 1) \o Runs("b", 1)
      [] name = "a500"   -> Runs("a", QueryLimit)
      [] name = "a500b"  -> Runs("a", QueryLimit) \o Runs("b", 1)
      [] name = "sp500"  -> Runs(" ", QueryLimit)
      [] name = "sp500a" -> Runs(" ", QueryLimit) \o Runs("a", 1)

\* doc.metadata is a dict: a function from its keys
MetadataChoices == {("source" :> "Act-A"), ("source" :> "Act-B"), <<>>}

\* metadata.get(key, default)
MetadataGet(metadata, key, default) ==
    IF key \in DOMAIN metadata THEN metadata[key] ELSE default

\* the text of the chunk added i-th: chunks differ in their text
ChunkText(i) == Runs("c", i)

\* The store keeps for every chunk the embedding of its text; the model
\* keeps one coordinate of it.  The embedding of a query is a fixed function
\* of the query's characters (the provider is deterministic).
ChunkVectors == {0, 1}

RECURSIVE CountOf(_, _)
CountOf(c, text) ==
    IF text = <<>> THEN 0
    ELSE (IF Head(text).item = c THEN Head(text).times ELSE 0) + CountOf(c, Tail(text))

QueryEmbedding(query) == CountOf("b", query) % 2

\* the store's distance (squared L2) between a chunk and the embedded query
Distance(chunk, query_embedding) ==
    (chunk.vec - query_embedding) * (chunk.vec - query_embedding)

\* Chunks nearer to the query come first; chunks at the same distance come
\* in the store's own order, which is the order added or its reverse.
RankKey(i, query_embedding) ==
    Distance(vs_docs[i], query_embedding) * (Len(vs_docs) + 1)
        + (IF vs_tiebreak = "first" THEN i ELSE Len(vs_docs) + 1 - i)

\* the list whose i-th item is f[i]
List(f) == <<>> \o f

Ranking(query_embedding) ==
    List([r \in 1..Len(vs_docs) |->
            CHOOSE i \in 1..Len(vs_docs) :
                Cardinality({j \in 1..Len(vs_docs) :
                                RankKey(j, query_embedding) < RankKey(i, query_embedding)})
                    = r - 1])

\* the k nearest chunks as fresh Document objects (id is the object's
\* identity) with their distance
NearestChunks(ranking, query_embedding, k, call) ==
    List([r \in 1..Min(k, Len(vs_docs)) |->
            [doc |-> [id |-> <<call, r>>,
                      page_content |-> vs_docs[ranking[r]].page_content,
                      metadata |-> vs_docs[ranking[r]].metadata],
             score |-> Distance(vs_docs[ranking[r]], query_embedding)]])

\* Chroma.similarity_search_with_score(query, k): the query is embedded
\* and the nearest chunks are looked up
similarity_search_with_score(query, k, call) ==
    CHOOSE found \in {NearestChunks(Ranking(query_embedding), query_embedding, k, call) :
                         query_embedding \in {QueryEmbedding(query)}} : TRUE

\* a search_with_scores that lets the store's exception through
search_with_scores_NoCatch(query, k, fails, call) ==
    IF BlankText(query)
    THEN [results |-> <<>>, calls |-> <<>>, raised |-> FALSE]
    ELSE IF fails
    THEN [results |-> <<>>,
          calls |-> <<[k |-> k, query |-> query, failed |-> TRUE]>>,
          raised |-> TRUE]
    ELSE [results |-> similarity_search_with_score(query, k, call),
          calls |-> <<[k |-> k, query |-> query, failed |-> FALSE]>>,
          raised |-> FALSE]

\* VectorDatabase.search_with_scores(query, k); fails tells that the store
\* call raises, call numbers the store call.  calls lists the store calls
\* made, raised tells that an exception leaves the method.
search_with_scores(query, k, fails, call) ==
    IF BlankText(query)
    THEN [results |-> <<>>, calls |-> <<>>, raised |-> FALSE]
    ELSE IF fails
    THEN [results |-> <<>>,
          calls |-> <<[k |-> k, query |-> query, failed |-> TRUE]>>,
          raised |-> FALSE]
    ELSE [results |-> similarity_search_with_score(query, k, call),
          calls |-> <<[k |-> k, query |-> query, failed |-> FALSE]>>,
          raised |-> FALSE]

Take(seq, n) == SubSeq(seq, 1, Min(n, Len(seq)))

\* the documents of a list of (doc, score) pairs
Docs(pairs) == List([i \in 1..Len(pairs) |-> pairs[i].doc])

\* a filter that also drops the candidates at exactly min_score
FilterByScore_Strict(results_with_scores, min_score) ==
    Docs(SelectSeq(results_with_scores, LAMBDA p : p.score > min_score))

\* [doc for doc, score in results_with_scores if score >= min_score]
FilterByScore(results_with_scores, min_score) ==
    Docs(SelectSeq(results_with_scores, LAMBDA p : p.score >= min_score))

\* what semantic_search makes of the answer of search_with_scores
SemanticResult(r, k, min_score) ==
    [docs |-> IF r.raised THEN <<>> ELSE Take(FilterByScore(r.results, min_score), k),
     calls |-> r.calls,
     candidates |-> r.results,
     raised |-> r.raised]

\* RetrievalSystem.semantic_search(query, k, min_score)
semantic_search(query, k, min_score, fails, call) ==
    IF BlankText(query)
    THEN [docs |-> <<>>, calls |-> <<>>, candidates |-> <<>>, raised |-> FALSE]
    ELSE SemanticResult(search_with_scores(query, k * 2, fails, call), k, min_score)

\* RetrievalSystem._keyword_search(query): the keywords are extracted and
\* not used; the result is a semantic search with k = 10
_keyword_search(query, fails, call) ==
    semantic_search(query, KeywordK, DefaultMinScore, fails, call)

\* doc_scores[id(doc)], times len(semantic_results) * len(keyword_results)
\* (1 for an empty list) and in tenths, so that it is an integer
DocScore(id, semantic_results, keyword_results, semantic_weight, keyword_weight) ==
    LET ns == Len(semantic_results)
        nk == Len(keyword_results)
        ds == IF ns = 0 THEN 1 ELSE ns
        dk == IF nk = 0 THEN 1 ELSE nk
        hs == {i \in 1..ns : semantic_results[i].id = id}
        hk == {i \in 1..nk : keyword_results[i].id = id}
        RECURSIVE SumS(_)
        SumS(S) == IF S = {} THEN 0
                   ELSE LET i == CHOOSE x \in S : TRUE
                        IN  semantic_weight * (ns - (i - 1)) * dk
                              + semantic_weight * ds * dk + SumS(S \ {i})
        RECURSIVE SumK(_)
        SumK(S) == IF S = {} THEN 0
                   ELSE LET i == CHOOSE x \in S : TRUE
                        IN  keyword_weight * (nk - (i - 1)) * ds + SumK(S \ {i})
    IN  SumS(hs) + SumK(hk)

\* the items of a dict filled in the order of docs: one per identity, at
\* the place of its first occurrence
RECURSIVE DocMap(_, _)
DocMap(docs, seen) ==
    IF docs = <<>> THEN <<>>
    ELSE IF Head(docs).id \in seen THEN DocMap(Tail(docs), seen)
    ELSE <<Head(docs)>> \o DocMap(Tail(docs), seen \cup {Head(docs).id})

\* a place before the items of the same score
InsertSorted_BeforeEquals(sorted, item) ==
    SelectSeq(sorted, LAMBDA p : p.score > item.score)
        \o <<item>>
        \o SelectSeq(sorted, LAMBDA p : p.score <= item.score)

\* the place of one more item in a list sorted by falling score: after the
\* items whose score is not less than its own
InsertSorted(sorted, item) ==
    SelectSeq(sorted, LAMBDA p : p.score >= item.score)
        \o <<item>>
        \o SelectSeq(sorted, LAMBDA p : p.score < item.score)

\* sorted(items, key, reverse=True): by falling score, equal scores in the
\* order they had
RECURSIVE SortedDescending(_)
SortedDescending(items) ==
    IF items = <<>> THEN <<>>
    ELSE InsertSorted(SortedDescending(SubSeq(items, 1, Len(items) - 1)),
                      items[Len(items)])

\* doc_map.items() with the score of every document
ScoredItems(doc_map, semantic_results, keyword_results, semantic_weight, keyword_weight) ==
    List([i \in 1..Len(doc_map) |->
            [doc |-> doc_map[i],
             score |-> DocScore(doc_map[i].id, semantic_results, keyword_results,
                                semantic_weight, keyword_weight)]])

\* RetrievalSystem._merge_results
_merge_results(semantic_results, keyword_results, semantic_weight, keyword_weight) ==
    Docs(SortedDescending(
            ScoredItems(DocMap(semantic_results \o keyword_results, {}),
                        semantic_results, keyword_results,
                        semantic_weight, keyword_weight)))

\* a hybrid_search that returns the whole merged list
HybridResult_NoLimit(sem, kwd, k, semantic_weight, keyword_weight) ==
    [docs |-> _merge_results(sem.docs, kwd.docs, semantic_weight, keyword_weight),
     semantic_results |-> sem.docs,
     keyword_results |-> kwd.docs,
     calls |-> sem.calls \o kwd.calls,
     candidates |-> sem.candidates \o kwd.candidates,
     raised |-> FALSE]

\* what hybrid_search makes of its two searches
HybridResult(sem, kwd, k, semantic_weight, keyword_weight) ==
    IF sem.raised
    THEN [docs |-> <<>>, semantic_results |-> <<>>, keyword_results |-> <<>>,
          calls |-> sem.calls, candidates |-> <<>>, raised |-> TRUE]
    ELSE IF kwd.raised
    THEN [docs |-> <<>>, semantic_results |-> sem.docs, keyword_results |-> <<>>,
          calls |-> sem.calls \o kwd.calls, candidates |-> <<>>,
          raised |-> TRUE]
    ELSE [docs |-> Take(_merge_results(sem.docs, kwd.docs, semantic_weight,
                                       keyword_weight), k),
          semantic_results |-> sem.docs,
          keyword_results |-> kwd.docs,
          calls |-> sem.calls \o kwd.calls,
          candidates |-> sem.candidates \o kwd.candidates,
          raised |-> FALSE]

\* RetrievalSystem.hybrid_search(query, k, semantic_weight, keyword_weight);
\* fl[1] and fl[2] tell whether the store call of the semantic and of the
\* keyword search raises
hybrid_search(query, k, semantic_weight, keyword_weight, fl) ==
    HybridResult(semantic_search(query, k * 2, DefaultMinScore, fl[1], 1),
                 _keyword_search(query, fl[2], 2),
                 k, semantic_weight, keyword_weight)

\* a selection that keeps every chunk, whatever its source
RECURSIVE DedupeBySource_KeepAll(_, _)
DedupeBySource_KeepAll(results, seen_sources) ==
    IF results = <<>> THEN <<>>
    ELSE << <<MetadataGet(Head(results).metadata, "source", "Unknown"),
              Head(results).page_content>> >>
         \o DedupeBySource_KeepAll(Tail(results), seen_sources)

\* a selection that keeps the last chunk of every source
RECURSIVE DedupeBySource_KeepLast(_, _)
DedupeBySource_KeepLast(results, seen_sources) ==
    IF results = <<>> THEN <<>>
    ELSE LET source == MetadataGet(Head(results).metadata, "source", "Unknown")
         IN  IF \E i \in 1..Len(Tail(results)) :
                    MetadataGet(Tail(results)[i].metadata, "source", "Unknown") = source
             THEN DedupeBySource_KeepLast(Tail(results), seen_sources)
             ELSE << <<source, Head(results).page_content>> >>
                  \o DedupeBySource_KeepLast(Tail(results), seen_sources)

\* the loop over results of retrieve_relevant_regulations: the first chunk
\* of every source, as (source, page_content)
RECURSIVE DedupeBySource(_, _)
DedupeBySource(results, seen_sources) ==
    IF results = <<>> THEN <<>>
    ELSE LET source == MetadataGet(Head(results).metadata, "source", "Unknown")
         IN  IF source \in seen_sources
             THEN DedupeBySource(Tail(results), seen_sources)
             ELSE << <<source, Head(results).page_content>> >>
                  \o DedupeBySource(Tail(results), seen_sources \cup {source})

\* a query that is the whole document
QueryOf_WholeDocument(user_document) == user_document

\* user_document[:500] if len(user_document) > 500 else user_document
QueryOf(user_document) ==
    IF TextLen(user_document) > QueryLimit
    THEN TextPrefix(user_document, QueryLimit)
    ELSE user_document

\* what retrieve_relevant_regulations makes of the search it ran
RegulationsResult(res) ==
    [regulations |-> IF res.raised THEN <<>> ELSE DedupeBySource(res.docs, {}),
     calls |-> res.calls,
     raised |-> res.raised]

\* RetrievalSystem.retrieve_relevant_regulations(user_document, k, use_hybrid)
RetrieveRegulations(user_document, k, use_hybrid, fl) ==
    IF BlankText(user_document)
    THEN [regulations |-> <<>>, calls |-> <<>>, raised |-> FALSE]
    ELSE IF use_hybrid
    THEN RegulationsResult(hybrid_search(QueryOf(user_document), k,
                                         DefaultSemanticWeight, DefaultKeywordWeight, fl))
    ELSE RegulationsResult(semantic_search(QueryOf(user_document), k,
                                           DefaultMinScore, fl[1], 1))

\* no call of the RetrievalSystem is in progress
RtIdle == [op |-> "idle", text |-> "empty", k |-> 1, use_hybrid |-> FALSE,
           min_score |-> 0, fl |-> <<FALSE, FALSE>>, docs |-> <<>>,
           regulations |-> <<>>, calls |-> <<>>, candidates |-> <<>>,
           raised |-> FALSE, weights |-> <<0, 0>>,
           semantic_results |-> <<>>, keyword_results |-> <<>>]

retrieve_relevant_regulations(name, k, use_hybrid, fl) ==
    \E r \in {RetrieveRegulations(user_document, k, use_hybrid, fl) :
                  user_document \in {Document(name)}} :
        /\ rt_ret.op = "idle"
        /\ rt_ret' = [op |-> "retrieve_relevant_regulations", text |-> name, k |-> k,
                      use_hybrid |-> use_hybrid, min_score |-> DefaultMinScore,
                      fl |-> fl, docs |-> <<>>, regulations |-> r.regulations,
                      calls |-> r.calls, candidates |-> <<>>, raised |-> r.raised,
                      weights |-> <<0, 0>>,
                      semantic_results |-> <<>>, keyword_results |-> <<>>]
        /\ UNCHANGED storeVars
        /\ UNCHANGED nonRetrievalVars

semantic_search_call(name, k, min_score, fails) ==
    \E r \in {semantic_search(query, k, min_score, fails, 1) :
                  query \in {Document(name)}} :
        /\ rt_ret.op = "idle"
        /\ rt_ret' = [op |-> "semantic_search", text |-> name, k |-> k,
                      use_hybrid |-> FALSE, min_score |-> min_score,
                      fl |-> <<fails, FALSE>>, docs |-> r.docs, regulations |-> <<>>,
                      calls |-> r.calls, candidates |-> r.candidates,
                      raised |-> r.raised, weights |-> <<0, 0>>,
                      semantic_results |-> <<>>, keyword_results |-> <<>>]
        /\ UNCHANGED storeVars
        /\ UNCHANGED nonRetrievalVars

\* weights[1] and weights[2] are semantic_weight and keyword_weight, in tenths
hybrid_search_call(name, k, weights, fl) ==
    \E r \in {hybrid_search(query, k, weights[1], weights[2], fl) :
                  query \in {Document(name)}} :
        /\ rt_ret.op = "idle"
        /\ rt_ret' = [op |-> "hybrid_search", text |-> name, k |-> k,
                      use_hybrid |-> TRUE, min_score |-> DefaultMinScore,
                      fl |-> fl, docs |-> r.docs, regulations |-> <<>>,
                      calls |-> r.calls, candidates |-> r.candidates,
                      raised |-> r.raised, weights |-> weights,
                      semantic_results |-> r.semantic_results,
                      keyword_results |-> r.keyword_results]
        /\ UNCHANGED storeVars
        /\ UNCHANGED nonRetrievalVars

\* the caller takes what the call returned
rt_return ==
    /\ rt_ret.op # "idle"
    /\ rt_ret' = RtIdle
    /\ UNCHANGED storeVars
    /\ UNCHANGED nonRetrievalVars

\* the scores min_score is compared with: the store's distances and one above
MinScores == {0, 1, 2}

\* no call of the VectorDatabase is in progress
VsIdle == [op |-> "idle"]

(***************************************************************************)
(* VectorDatabase methods that change or inspect the collection            *)
(***************************************************************************)
\* the documents add_documents is given: chunks of two sources by turns
SourceDocuments ==
    << [page_content |-> Runs("a", 1), metadata |-> ("source" :> "Act-A")],
       [page_content |-> Runs("b", 1), metadata |-> ("source" :> "Act-B")] >>

AddInputs ==
    {[i \in 1..n |-> SourceDocuments[((i - 1) % 2) + 1]] : n \in 0..MaxAddLen}

\* the number of batches of batch_size that n documents make
NumBatches(n, batch_size) == (n + batch_size - 1) \div batch_size

\* Chroma.add_documents(batch): every document gets a new identifier and
\* is kept with the embedding of its text; st is the collection, the next
\* identifier, the ids collected and the store calls made so far
AddBatch(batch, fails, st) ==
    IF fails
    THEN [st EXCEPT !.calls = Append(@, [batch |-> batch, failed |-> TRUE])]
    ELSE [docs |-> st.docs \o
                    List([j \in 1..Len(batch) |->
                            [chunk_id |-> st.next_id + j - 1,
                             page_content |-> batch[j].page_content,
                             metadata |-> batch[j].metadata,
                             vec |-> QueryEmbedding(batch[j].page_content)]]),
          next_id |-> st.next_id + Len(batch),
          ids |-> st.ids \o List([j \in 1..Len(batch) |-> st.next_id + j - 1]),
          calls |-> Append(st.calls, [batch |-> batch, failed |-> FALSE])]

\* a loop that gives up at the first batch that fails
RECURSIVE AddLoop_StopAtFailure(_, _, _, _, _)
AddLoop_StopAtFailure(documents, i, batch_size, fl, st) ==
    IF i > Len(documents) \/ fl[((i - 1) \div batch_size) + 1] THEN st
    ELSE AddLoop_StopAtFailure(documents, i + batch_size, batch_size, fl,
             AddBatch(SubSeq(documents, i, Min(i + batch_size - 1, Len(documents))),
                      FALSE, st))

\* for i in range(0, len(documents), batch_size): fl[b] tells whether the
\* store call of batch b raises
RECURSIVE AddLoop(_, _, _, _, _)
AddLoop(documents, i, batch_size, fl, st) ==
    IF i > Len(documents) THEN st
    ELSE AddLoop(documents, i + batch_size, batch_size, fl,
             AddBatch(SubSeq(documents, i, Min(i + batch_size - 1, Len(documents))),
                      fl[((i - 1) \div batch_size) + 1], st))

\* what add_documents returns after its loop: persist() is called, and an
\* exception of it leaves the method
AddResult(st, persist_fails) ==
    [docs |-> st.docs, next_id |-> st.next_id, calls |-> st.calls,
     persist_called |-> TRUE,
     result |-> IF persist_fails THEN <<>> ELSE st.ids,
     raised |-> persist_fails]

\* VectorDatabase.add_documents(documents, batch_size); persist_fails tells
\* whether vector_store.persist() raises
AddDocumentsTo(docs, next_id, documents, batch_size, fl, persist_fails) ==
    IF documents = <<>>
    THEN [docs |-> docs, next_id |-> next_id, calls |-> <<>>,
          persist_called |-> FALSE, result |-> <<>>, raised |-> FALSE]
    ELSE AddResult(AddLoop(documents, 1, batch_size, fl,
                           [docs |-> docs, next_id |-> next_id,
                            ids |-> <<>>, calls |-> <<>>]),
                   persist_fails)

\* the call on the collection as it is
AddDocuments(documents, batch_size, fl, persist_fails) ==
    AddDocumentsTo(vs_docs, vs_next_id, documents, batch_size, fl, persist_fails)

add_documents(documents, batch_size, fl, persist_fails) ==
    \E r \in {AddDocuments(documents, batch_size, fl, persist_fails)} :
        /\ vs_ret.op = "idle"
        /\ vs_docs' = r.docs
        /\ vs_next_id' = r.next_id
        /\ vs_ret' = [op |-> "add_documents", documents |-> documents,
                      batch_size |-> batch_size, fl |-> fl, calls |-> r.calls,
                      persist_called |-> r.persist_called, result |-> r.result,
                      raised |-> r.raised]
        /\ UNCHANGED <<vs_tiebreak, rt_ret>>
        /\ UNCHANGED nonRetrievalVars

\* Chroma.similarity_search(query, k): the documents of the scored search
similarity_search(query, k, call) == Docs(similarity_search_with_score(query, k, call))

\* a search that puts a blank query to the store as well
search_NoBlankCheck(query, k, fails, call) ==
    IF fails
    THEN [results |-> <<>>,
          calls |-> <<[k |-> k, query |-> query, failed |-> TRUE]>>,
          raised |-> FALSE]
    ELSE [results |-> similarity_search(query, k, call),
          calls |-> <<[k |-> k, query |-> query, failed |-> FALSE]>>,
          raised |-> FALSE]

\* VectorDatabase.search(query, k), like search_with_scores
search(query, k, fails, call) ==
    IF BlankText(query)
    THEN [results |-> <<>>, calls |-> <<>>, raised |-> FALSE]
    ELSE IF fails
    THEN [results |-> <<>>,
          calls |-> <<[k |-> k, query |-> query, failed |-> TRUE]>>,
          raised |-> FALSE]
    ELSE [results |-> similarity_search(query, k, call),
          calls |-> <<[k |-> k, query |-> query, failed |-> FALSE]>>,
          raised |-> FALSE]

search_call(name, k, fails) ==
    \E r \in {search(query, k, fails, 1) : query \in {Document(name)}} :
        /\ vs_ret.op = "idle"
        /\ vs_ret' = [op |-> "search", text |-> name, k |-> k, fails |-> fails,
                      calls |-> r.calls, result |-> r.results, raised |-> r.raised]
        /\ UNCHANGED <<vs_docs, vs_tiebreak, vs_next_id, rt_ret>>
        /\ UNCHANGED nonRetrievalVars

search_with_scores_call(name, k, fails) ==
    \E r \in {search_with_scores(query, k, fails, 1) : query \in {Document(name)}} :
        /\ vs_ret.op = "idle"
        /\ vs_ret' = [op |-> "search_with_scores", text |-> name, k |-> k,
                      fails |-> fails, calls |-> r.calls, result |-> r.results,
                      raised |-> r.raised]
        /\ UNCHANGED <<vs_docs, vs_tiebreak, vs_next_id, rt_ret>>
        /\ UNCHANGED nonRetrievalVars

\* a chunk matches a metadata filter when it has every key of the filter
\* with the filter's value
MatchesFilter(chunk, filter_dict) ==
    \A key \in DOMAIN filter_dict :
        key \in DOMAIN chunk.metadata /\ chunk.metadata[key] = filter_dict[key]

\* Chroma.delete(ids): the collection without the chunks of these identifiers
StoreDelete(docs, ids) ==
    SelectSeq(docs, LAMBDA chunk : chunk.chunk_id \notin Range(ids))

\* VectorDatabase.delete_documents(ids, filter_dict).  No ids and no filter
\* are the empty list and the empty dict.  fails names the call that raises:
\* "store" the call of the store made for the ids or for the filter,
\* "persist" the persist(), "none" neither.  With a filter and no ids the
\* method reads the collection and deletes nothing.
DeleteDocuments(ids, filter_dict, fails) ==
    IF ids # <<>>
    THEN IF fails = "store"
         THEN [docs |-> vs_docs, calls |-> <<"delete">>, result |-> FALSE]
         ELSE [docs |-> StoreDelete(vs_docs, ids),
               calls |-> <<"delete", "persist">>,
               result |-> fails # "persist"]
    ELSE IF filter_dict # <<>>
    THEN IF fails = "store"
         THEN [docs |-> vs_docs, calls |-> <<"get">>, result |-> FALSE]
         ELSE [docs |-> vs_docs, calls |-> <<"get", "persist">>,
               result |-> fails # "persist"]
    ELSE [docs |-> vs_docs, calls |-> <<"persist">>, result |-> fails # "persist"]

delete_documents(ids, filter_dict, fails) ==
    \E r \in {DeleteDocuments(ids, filter_dict, fails)} :
        /\ vs_ret.op = "idle"
        /\ vs_docs' = r.docs
        /\ vs_ret' = [op |-> "delete_documents", ids |-> ids,
                      filter_dict |-> filter_dict, fails |-> fails,
                      calls |-> r.calls, result |-> r.result, raised |-> FALSE]
        /\ UNCHANGED <<vs_tiebreak, vs_next_id, rt_ret>>
        /\ UNCHANGED nonRetrievalVars

\* the ids delete_documents is called with: none, one identifier that was
\* or will be handed out, or the first two
DeleteIds == {<<>>, <<1, 2>>} \cup {<<i>> : i \in 1..(MaxStore + 1)}

\* the filters delete_documents is called with: none or one source
DeleteFilters == {<<>>, ("source" :> "Act-A")}

\* _initialize_database: the collection object is created; when the first
\* creation raises, it is attempted once more, and a second failure is
\* raised to the caller.  init_fails is the number of failing attempts.
InitializeDatabase(init_fails) ==
    [raised |-> init_fails >= 2]

\* the steps of clear_collection that can fail
ClearFailures == {"none", "rmtree", "mkdir", "init_first", "init_both"}

ClearCollection_KeepData(docs, fails) ==
    IF fails \in {"rmtree", "mkdir", "init_both"}
    THEN [docs |-> {docs}, result |-> FALSE, raised |-> FALSE]
    ELSE [docs |-> {docs}, result |-> TRUE, raised |-> FALSE]

\* clear_collection: the persist directory is removed and made anew and
\* the collection object is created over it; any exception is caught and
\* False is returned.  docs is the set of collections the call can leave:
\* a removal that raised may or may not have destroyed the data.
ClearCollection(docs, fails) ==
    IF fails = "rmtree"
    THEN [docs |-> {docs, <<>>}, result |-> FALSE, raised |-> FALSE]
    ELSE IF fails = "mkdir"
    THEN [docs |-> {docs, <<>>}, result |-> FALSE, raised |-> FALSE]
    ELSE IF InitializeDatabase(IF fails = "init_both" THEN 2
                               ELSE IF fails = "init_first" THEN 1 ELSE 0).raised
    THEN [docs |-> {docs, <<>>}, result |-> FALSE, raised |-> FALSE]
    ELSE [docs |-> {<<>>}, result |-> TRUE, raised |-> FALSE]

clear_collection(fails) ==
    \E r \in {ClearCollection(vs_docs, fails)} :
        /\ vs_docs' \in r.docs
        /\ vs_ret' = [op |-> "clear_collection", fails |-> fails,
                      result |-> r.result, raised |-> r.raised]
        /\ UNCHANGED <<vs_tiebreak, vs_next_id, rt_ret>>
        /\ UNCHANGED nonRetrievalVars

CollectionName == "regulations"

\* get_collection_info: the count of the collection, or the error
\* dictionary when reading the collection raises
GetCollectionInfo(docs, fails) ==
    IF fails
    THEN [error |-> "count failed", collection_name |-> CollectionName]
    ELSE [collection_name |-> CollectionName, document_count |-> Len(docs)]

get_collection_info(fails) ==
    /\ vs_ret' = [op |-> "get_collection_info", fails |-> fails,
                  result |-> GetCollectionInfo(vs_docs, fails), raised |-> FALSE]
    /\ UNCHANGED <<vs_docs, vs_tiebreak, vs_next_id, rt_ret>>
    /\ UNCHANGED nonRetrievalVars

\* the caller takes what the call returned
vs_return ==
    /\ vs_ret.op # "idle"
    /\ vs_ret' = VsIdle
    /\ UNCHANGED <<vs_docs, vs_tiebreak, vs_next_id, rt_ret>>
    /\ UNCHANGED nonRetrievalVars

\* The methods of the VectorDatabase are called; the model stops adding
\* when the collection would pass MaxStore chunks or the identifiers
\* MaxStore + 1.
StoreNext ==
    \/ /\ vs_ret.op = "idle"
       /\ \E documents \in AddInputs, batch_size \in 1..MaxAddLen,
             persist_fails \in BOOLEAN :
              /\ Len(vs_docs) + Len(documents) <= MaxStore
              /\ vs_next_id + Len(documents) <= MaxStore + 2
              /\ documents = <<>> => ~persist_fails
              /\ \E fl \in [1..NumBatches(Len(documents), batch_size) -> BOOLEAN] :
                    add_documents(documents, batch_size, fl, persist_fails)
    \/ /\ vs_ret.op = "idle"
       /\ \E name \in DocumentNames, k \in 1..MaxK, fails \in BOOLEAN :
              search_call(name, k, fails)
    \/ /\ vs_ret.op = "idle"
       /\ \E name \in DocumentNames, k \in 1..MaxK, fails \in BOOLEAN :
              search_with_scores_call(name, k, fails)
    \/ /\ vs_ret.op = "idle"
       /\ \E ids \in DeleteIds, filter_dict \in DeleteFilters,
             fails \in {"none", "store", "persist"} :
              /\ (ids = <<>> /\ filter_dict = <<>>) => fails # "store"
              /\ delete_documents(ids, filter_dict, fails)
    \/ /\ vs_ret.op = "idle"
       /\ \E fails \in ClearFailures : clear_collection(fails)
    \/ /\ vs_ret.op = "idle"
       /\ \E fails \in BOOLEAN : get_collection_info(fails)
    \/ vs_return

\* a collection of up to MaxStore chunks, as an earlier run left it on disk
RetrievalInit ==
    /\ \E n \in 0..MaxStore :
         \E md \in [1..n -> MetadataChoices], vec \in [1..n -> ChunkVectors] :
            vs_docs = [i \in 1..n |-> [chunk_id |-> i, page_content |-> ChunkText(i),
                                       metadata |-> md[i], vec |-> vec[i]]]
    /\ vs_tiebreak \in {"first", "last"}
    /\ vs_next_id = Len(vs_docs) + 1
    /\ vs_ret = VsIdle
    /\ rt_ret = RtIdle

\* semantic_search is called
SearchNext ==
    \/ /\ rt_ret.op = "idle"
       /\ \E name \in DocumentNames, k \in 1..MaxK, min_score \in MinScores,
             fails \in BOOLEAN :
              semantic_search_call(name, k, min_score, fails)
    \/ rt_return

\* the weights hybrid_search is called with: the defaults and their swap
WeightChoices == {<<DefaultSemanticWeight, DefaultKeywordWeight>>,
                  <<DefaultKeywordWeight, DefaultSemanticWeight>>}

\* the most documents in a list given to _merge_results
MaxMerge == 2

\* The Document objects _merge_results is given: object r of the list
\* that store call c returned; a caller can pass one object in both lists.
MergeObjects ==
    {[id |-> <<c, r>>, page_content |-> ChunkText(r), metadata |-> <<>>] :
        c \in 1..2, r \in 1..MaxMerge}

\* the lists of up to MaxMerge different objects
MergeLists ==
    {list \in UNION {[1..n -> MergeObjects] : n \in 0..MaxMerge} :
        \A i, j \in 1..Len(list) : list[i] = list[j] => i = j}

\* the weights of the merge, in tenths: the defaults, both ways, weights
\* that are all zero, and a keyword weight of twice the semantic one
MergeWeights == WeightChoices \cup {<<0, 0>>, <<5, 10>>}

\* _merge_results is called on its own; scores[i] is doc_scores of the
\* document returned at position i, scaled as DocScore
merge_results_call(semantic_results, keyword_results, weights) ==
    \E merged \in {_merge_results(semantic_results, keyword_results,
                                  weights[1], weights[2])} :
        /\ rt_ret.op = "idle"
        /\ rt_ret' = [op |-> "_merge_results", docs |-> merged,
                      weights |-> weights,
                      semantic_results |-> semantic_results,
                      keyword_results |-> keyword_results,
                      scores |-> List([i \in 1..Len(merged) |->
                                    DocScore(merged[i].id, semantic_results,
                                             keyword_results, weights[1], weights[2])])]
        /\ UNCHANGED storeVars
        /\ UNCHANGED nonRetrievalVars

MergeNext ==
    \/ /\ rt_ret.op = "idle"
       /\ \E semantic_results \in MergeLists, keyword_results \in MergeLists,
             weights \in MergeWeights :
              merge_results_call(semantic_results, keyword_results, weights)
    \/ rt_return

\* hybrid_search is called
HybridNext ==
    \/ /\ rt_ret.op = "idle"
       /\ \E name \in DocumentNames, k \in 1..MaxK, weights \in WeightChoices,
             fl \in [1..2 -> BOOLEAN] :
              hybrid_search_call(name, k, weights, fl)
    \/ rt_return

\* retrieve_relevant_regulations is called
RetrievalNext ==
    \/ /\ rt_ret.op = "idle"
       /\ \E name \in DocumentNames, k \in 1..MaxK, use_hybrid \in BOOLEAN,
             fl \in [1..2 -> BOOLEAN] :
              /\ use_hybrid \/ ~fl[2]
              /\ retrieve_relevant_regulations(name, k, use_hybrid, fl)
    \/ rt_return

(***************************************************************************)
(* DocumentProcessor (document_processor.py): texts and files are cut into *)
(* chunks that carry metadata.  The texts processed are blank or one run   *)
(* of a character that is no separator, which the splitter cuts by length. *)
(***************************************************************************)
\* no call of the DocumentProcessor or the DatabaseManager is in progress
DpIdle == [op |-> "idle"]

DmIdle == [op |-> "idle"]

IndexingInit ==
    /\ dp_ret = DpIdle
    /\ dm_ret = DmIdle

ChunkSize == 1000

ChunkOverlap == 200

\* the most chunks a text of the model is cut into
MaxChunks == 3

\* the lengths of the texts: one character, a full chunk, and for every
\* further chunk the shortest and the longest text that needs it
TextLengths ==
    {1, ChunkSize} \cup
    {ChunkSize + (c - 2) * (ChunkSize - ChunkOverlap) + 1 : c \in 2..MaxChunks} \cup
    {ChunkSize + (c - 1) * (ChunkSize - ChunkOverlap) : c \in 2..MaxChunks}

ProcessTexts == {<<>>, Runs(" ", 1)} \cup {Runs("a", n) : n \in TextLengths}

\* RecursiveCharacterTextSplitter.split_text of a text without separators:
\* it is cut into characters, which are merged into chunks of chunk_size;
\* after a chunk is full its last chunk_overlap characters open the next
split_text(text) ==
    LET n == TextLen(text)
        step == ChunkSize - ChunkOverlap
        count == IF n <= ChunkSize THEN 1
                 ELSE 1 + ((n - ChunkSize + step - 1) \div step)
    IN  List([j \in 1..count |->
                 Runs(text[1].item, Min(ChunkSize, n - (j - 1) * step))])

\* dict.update(other): the keys of other are set, over what was there
DictUpdate(dict, other) ==
    [key \in (DOMAIN dict) \cup (DOMAIN other) |->
        IF key \in DOMAIN other THEN other[key] ELSE dict[key]]

\* the metadata a caller passes: none, a key of its own, or keys that the
\* processor generates as well
MetadataInputs ==
    {<<>>,
     ("category" :> "law"),
     ("source" :> "other"),
     ("chunk_index" :> 7 @@ "total_chunks" :> 1)}

SourceLabels == {"Act-A", "Act-B"}

\* the metadata the processor makes for the chunk idx (counted from 0) of
\* count chunks: labels holds the keys that name the source
GeneratedMetadata(labels, idx, count) ==
    labels @@ ("chunk_index" :> idx @@ "total_chunks" :> count)

\* the Document objects of the chunks, with the caller's metadata set
\* over the generated one
ChunkDocuments(chunks, labels, metadata) ==
    List([i \in 1..Len(chunks) |->
             [page_content |-> chunks[i],
              metadata |-> IF metadata # <<>>
                           THEN DictUpdate(GeneratedMetadata(labels, i - 1, Len(chunks)),
                                           metadata)
                           ELSE GeneratedMetadata(labels, i - 1, Len(chunks))]])

\* DocumentProcessor.process_text(text, source_label, metadata)
ProcessText(text, source_label, metadata) ==
    IF BlankText(text) THEN <<>>
    ELSE ChunkDocuments(split_text(text), ("source" :> source_label), metadata)

process_text(text, source_label, metadata) ==
    /\ dp_ret' = [op |-> "process_text", text |-> text,
                  source_label |-> source_label, metadata |-> metadata,
                  result |-> ProcessText(text, source_label, metadata),
                  raised |-> FALSE]
    /\ UNCHANGED <<dm_ret, retrievalVars, cacheVars, embedVars, writerVars>>

SupportedExtensions == {".txt", ".pdf", ".docx"}

\* ext.lower()
Lower(ext) == IF ext = ".TXT" THEN ".txt" ELSE ext

FileNames == {"gdpr.txt", "hipaa.TXT", "notes.exe"}

\* os.path.splitext(path)[1] for the names of the model
Splitext(name) ==
    CASE name = "gdpr.txt"  -> ".txt"
      [] name = "hipaa.TXT" -> ".TXT"
      [] name = "notes.exe" -> ".exe"

\* A file is its path (directory and name) with what reading it gives:
\* readable tells whether opening and reading it succeeds.
Files ==
    {[dir |-> "reference_docs", name |-> nm, readable |-> r, text |-> t] :
        nm \in FileNames, r \in BOOLEAN,
        t \in {<<>>, Runs(" ", 1), Runs("a", 1), Runs("a", ChunkSize + 1)}}

\* the path of a file, as the DocumentProcessor is given it
FilePath(file) == [dir |-> file.dir, name |-> file.name]

\* os.path.basename(path)
Basename(path) == path.name

\* is_supported_file_type(path)[0]
is_supported_file_type(path) == Lower(Splitext(path.name)) \in SupportedExtensions

\* extract_text_from_path(path, show_warning=False): ValueError for an
\* extension that is not supported, the error of open() or read() for a
\* file that cannot be read
extract_text_from_path(file) ==
    IF Lower(Splitext(file.name)) \notin SupportedExtensions
    THEN [raised |-> TRUE, text |-> <<>>]
    ELSE IF ~file.readable
    THEN [raised |-> TRUE, text |-> <<>>]
    ELSE [raised |-> FALSE, text |-> file.text]

\* DocumentProcessor.process_file(file_path, source_label, metadata); a
\* source_label of None stands for the name of the file
ProcessFile(file, source_label, metadata) ==
    LET extracted == extract_text_from_path(file)
        label == IF source_label = None THEN Basename(FilePath(file))
                 ELSE source_label
    IN  IF extracted.raised THEN <<>>
        ELSE IF BlankText(extracted.text) THEN <<>>
        ELSE ChunkDocuments(split_text(extracted.text),
                            ("source" :> label @@ "source_file" :> FilePath(file)),
                            metadata)

process_file(file, source_label, metadata) ==
    /\ dp_ret' = [op |-> "process_file", file |-> file,
                  source_label |-> IF source_label = None
                                   THEN Basename(FilePath(file)) ELSE source_label,
                  metadata |-> metadata,
                  result |-> ProcessFile(file, source_label, metadata),
                  raised |-> FALSE]
    /\ UNCHANGED <<dm_ret, retrievalVars, cacheVars, embedVars, writerVars>>

dp_return ==
    /\ dp_ret.op # "idle"
    /\ dp_ret' = DpIdle
    /\ UNCHANGED <<dm_ret, retrievalVars, cacheVars, embedVars, writerVars>>

ProcessNext ==
    \/ /\ dp_ret.op = "idle"
       /\ \E text \in ProcessTexts, source_label \in SourceLabels,
             metadata \in MetadataInputs :
              process_text(text, source_label, metadata)
    \/ /\ dp_ret.op = "idle"
       /\ \E file \in Files, source_label \in SourceLabels \cup {None},
             metadata \in MetadataInputs :
              process_file(file, source_label, metadata)
    \/ dp_return

(***************************************************************************)
(* DatabaseManager (database_manager.py): files and texts are processed    *)
(* and their chunks added to the collection.                               *)
(***************************************************************************)
\* the most files one indexing run is given
MaxFiles == 2

\* the most chunks the collection grows to by indexing
MaxIndexed == 2

\* add_documents is called without a batch size
DefaultBatchSize == 100

\* The files of an indexing run: one of one chunk, one of two chunks, one
\* of an unsupported type, one that cannot be read, one that is blank and
\* one whose processing raises (raises tells whether process_file does).
IndexEntries ==
    {[file |-> [dir |-> "reference_docs", name |-> "gdpr.txt", readable |-> TRUE,
                text |-> Runs("a", 1)], raises |-> FALSE],
     [file |-> [dir |-> "reference_docs", name |-> "hipaa.TXT", readable |-> TRUE,
                text |-> Runs("a", ChunkSize + 1)], raises |-> FALSE],
     [file |-> [dir |-> "reference_docs", name |-> "notes.exe", readable |-> TRUE,
                text |-> Runs("a", 1)], raises |-> FALSE],
     [file |-> [dir |-> "reference_docs", name |-> "gdpr.txt", readable |-> FALSE,
                text |-> <<>>], raises |-> FALSE],
     [file |-> [dir |-> "reference_docs", name |-> "hipaa.TXT", readable |-> TRUE,
                text |-> Runs(" ", 1)], raises |-> FALSE],
     [file |-> [dir |-> "reference_docs", name |-> "gdpr.txt", readable |-> TRUE,
                text |-> Runs("a", 1)], raises |-> TRUE]}

FileLists == UNION {[1..n -> IndexEntries] : n \in 0..MaxFiles}

\* _get_reference_files: the files of the reference directory that have a
\* supported type, in the order of the listing; an error of the listing
\* is raised to the caller
GetReferenceFiles(dir_files, listing_fails) ==
    IF listing_fails THEN [raised |-> TRUE, files |-> <<>>]
    ELSE [raised |-> FALSE,
          files |-> SelectSeq(dir_files,
                        LAMBDA entry : is_supported_file_type(FilePath(entry.file)))]

EmptyResults == [indexed |-> 0, failed |-> 0, errors |-> <<>>]

IndexFailure(acc, i, msg, entry) ==
    [acc EXCEPT !.results.failed = @ + 1,
                !.results.errors = Append(@, [msg |-> msg, path |-> FilePath(entry.file)]),
                !.processed = Append(@, i)]

\* one round of the loop over files_to_index: acc is the results, the
\* documents collected and the positions gone through so far
IndexFile(entry, i, acc) ==
    IF ~is_supported_file_type(FilePath(entry.file))
    THEN IndexFailure(acc, i, "Unsupported file type", entry)
    ELSE IF entry.raises
    THEN IndexFailure(acc, i, "Error processing", entry)
    ELSE LET documents == ProcessFile(entry.file, Basename(FilePath(entry.file)), <<>>)
         IN  IF documents # <<>>
             THEN [acc EXCEPT !.results.indexed = @ + 1,
                              !.all_documents = @ \o documents,
                              !.processed = Append(@, i)]
             ELSE IndexFailure(acc, i, "No content extracted", entry)

\* for file_path in files_to_index
RECURSIVE IndexLoop(_, _, _)
IndexLoop(files, i, acc) ==
    IF i > Len(files) THEN acc
    ELSE IndexLoop(files, i + 1, IndexFile(files[i], i, acc))

\* the end of index_reference_documents: the documents collected are
\* added in one call, and an exception of it becomes one more message
IndexAdd(docs, next_id, acc, add_fails, persist_fails) ==
    IF acc.all_documents = <<>>
    THEN [docs |-> docs, next_id |-> next_id, results |-> acc.results,
          processed |-> acc.processed, all_documents |-> <<>>]
    ELSE LET added == AddDocumentsTo(docs, next_id, acc.all_documents, DefaultBatchSize,
                                     [b \in 1..NumBatches(Len(acc.all_documents),
                                                          DefaultBatchSize) |-> add_fails],
                                     persist_fails)
         IN  [docs |-> added.docs, next_id |-> added.next_id,
              results |-> IF added.raised
                          THEN [acc.results EXCEPT !.errors =
                                   Append(@, [msg |-> "Failed to add documents to database",
                                              path |-> None])]
                          ELSE acc.results,
              processed |-> acc.processed, all_documents |-> acc.all_documents]

\* index_reference_documents(force_reindex, file_paths) on the collection
\* docs, which is the collection after the clear of a forced reindex
\* env tells what the reference directory holds (dir_files), whether
\* listing it raises (listing_fails), and whether the store call of the
\* batch (add_fails) or persist() (persist_fails) raises
IndexReferenceDocuments(docs, next_id, file_paths, env) ==
    LET listed == IF file_paths # <<>> THEN [raised |-> FALSE, files |-> file_paths]
                  ELSE GetReferenceFiles(env.dir_files, env.listing_fails)
    IN  IF listed.raised
        THEN [docs |-> docs, next_id |-> next_id, files |-> <<>>, raised |-> TRUE,
              result |-> None, processed |-> <<>>, all_documents |-> <<>>]
        ELSE IF listed.files = <<>>
        THEN [docs |-> docs, next_id |-> next_id, files |-> <<>>, raised |-> FALSE,
              result |-> EmptyResults, processed |-> <<>>, all_documents |-> <<>>]
        ELSE LET done == IndexAdd(docs, next_id,
                                  IndexLoop(listed.files, 1,
                                            [results |-> EmptyResults,
                                             all_documents |-> <<>>,
                                             processed |-> <<>>]),
                                  env.add_fails, env.persist_fails)
             IN  [docs |-> done.docs, next_id |-> done.next_id, files |-> listed.files,
                  raised |-> FALSE, result |-> done.results,
                  processed |-> done.processed, all_documents |-> done.all_documents]

\* an indexing that gives up with a message when the clear of a forced
\* reindex returned False
index_reference_documents_CheckClear(force_reindex, clear_fails, file_paths, env) ==
    IF force_reindex /\ ~ClearCollection(vs_docs, clear_fails).result
    THEN /\ vs_docs' \in ClearCollection(vs_docs, clear_fails).docs
         /\ dm_ret' = [op |-> "index_reference_documents",
                       force_reindex |-> force_reindex, clear_fails |-> clear_fails,
                       add_fails |-> env.add_fails, persist_fails |-> env.persist_fails,
                       files |-> <<>>, processed |-> <<>>, all_documents |-> <<>>,
                       result |-> [EmptyResults EXCEPT !.errors =
                                      <<[msg |-> "Failed to clear the collection",
                                         path |-> None]>>],
                       raised |-> FALSE]
         /\ UNCHANGED <<vs_tiebreak, vs_next_id, vs_ret, rt_ret, dp_ret>>
         /\ UNCHANGED <<cacheVars, embedVars, writerVars>>
    ELSE \E cleared \in IF force_reindex THEN ClearCollection(vs_docs, clear_fails).docs
                        ELSE {vs_docs} :
          \E r \in {IndexReferenceDocuments(cleared, vs_next_id, file_paths, env)} :
            /\ Len(r.docs) <= MaxIndexed
            /\ r.next_id <= MaxIndexed + 2
            /\ vs_docs' = r.docs
            /\ vs_next_id' = r.next_id
            /\ dm_ret' = [op |-> "index_reference_documents",
                          force_reindex |-> force_reindex, clear_fails |-> clear_fails,
                          add_fails |-> env.add_fails, persist_fails |-> env.persist_fails,
                          files |-> r.files,
                          processed |-> r.processed, all_documents |-> r.all_documents,
                          result |-> r.result, raised |-> r.raised]
            /\ UNCHANGED <<vs_tiebreak, vs_ret, rt_ret, dp_ret, cacheVars, embedVars, writerVars>>

index_reference_documents(force_reindex, clear_fails, file_paths, env) ==
    \E cleared \in IF force_reindex THEN ClearCollection(vs_docs, clear_fails).docs
                   ELSE {vs_docs} :
      \E r \in {IndexReferenceDocuments(cleared, vs_next_id, file_paths, env)} :
        /\ Len(r.docs) <= MaxIndexed
        /\ r.next_id <= MaxIndexed + 2
        /\ vs_docs' = r.docs
        /\ vs_next_id' = r.next_id
        /\ dm_ret' = [op |-> "index_reference_documents",
                      force_reindex |-> force_reindex, clear_fails |-> clear_fails,
                      add_fails |-> env.add_fails, persist_fails |-> env.persist_fails,
                      files |-> r.files,
                      processed |-> r.processed, all_documents |-> r.all_documents,
                      result |-> r.result, raised |-> r.raised]
        /\ UNCHANGED <<vs_tiebreak, vs_ret, rt_ret, dp_ret, cacheVars, embedVars, writerVars>>

\* index_text(text, source_label, metadata): the chunks of the text are
\* added in one call of add_documents; add_fails tells whether the store
\* call of the batch raises, persist_fails whether persist() does
IndexText(docs, next_id, text, source_label, metadata, add_fails, persist_fails) ==
    LET documents == ProcessText(text, source_label, metadata)
    IN  IF documents # <<>>
        THEN LET added == AddDocumentsTo(docs, next_id, documents, DefaultBatchSize,
                                         [b \in 1..NumBatches(Len(documents),
                                                              DefaultBatchSize) |-> add_fails],
                                         persist_fails)
             IN  [docs |-> added.docs, next_id |-> added.next_id,
                  documents |-> documents, result |-> ~added.raised, raised |-> FALSE]
        ELSE [docs |-> docs, next_id |-> next_id, documents |-> documents,
              result |-> FALSE, raised |-> FALSE]

index_text(text, source_label, metadata, add_fails, persist_fails) ==
    \E r \in {IndexText(vs_docs, vs_next_id, text, source_label, metadata,
                        add_fails, persist_fails)} :
        /\ Len(r.docs) <= MaxIndexed
        /\ r.next_id <= MaxIndexed + 2
        /\ vs_docs' = r.docs
        /\ vs_next_id' = r.next_id
        /\ dm_ret' = [op |-> "index_text", text |-> text, source_label |-> source_label,
                      metadata |-> metadata, documents |-> r.documents,
                      add_fails |-> add_fails, persist_fails |-> persist_fails,
                      result |-> r.result, raised |-> r.raised]
        /\ UNCHANGED <<vs_tiebreak, vs_ret, rt_ret, dp_ret, cacheVars, embedVars, writerVars>>

ReferenceDir == "./reference_docs"

\* get_database_stats: the collection info with the reference directory
\* and the number of its files
GetDatabaseStats(docs, count_fails, dir_files, listing_fails) ==
    LET listed == GetReferenceFiles(dir_files, listing_fails)
    IN  IF listed.raised THEN [raised |-> TRUE, stats |-> <<>>]
        ELSE [raised |-> FALSE,
              stats |-> DictUpdate(GetCollectionInfo(docs, count_fails),
                                   ("reference_directory" :> ReferenceDir @@
                                    "reference_files" :> Len(listed.files)))]

\* check_database_health: count_fails tells whether counting the
\* collection raises, listing_fails whether listing the reference
\* directory does
CheckDatabaseHealth(docs, count_fails, dir_files, listing_fails) ==
    LET got == GetDatabaseStats(docs, count_fails, dir_files, listing_fails)
        document_count == MetadataGet(got.stats, "document_count", 0)
        reference_files == MetadataGet(got.stats, "reference_files", 0)
    IN  IF got.raised
        THEN [status |-> "error", database_exists |-> FALSE, document_count |-> 0,
              reference_files |-> 0, warnings |-> <<"Database error">>]
        ELSE [status |-> IF document_count = 0 THEN "empty" ELSE "healthy",
              database_exists |-> TRUE,
              document_count |-> document_count,
              reference_files |-> reference_files,
              warnings |-> (IF document_count = 0 THEN <<"Database is empty">> ELSE <<>>) \o
                           (IF reference_files = 0 THEN <<"No reference files">> ELSE <<>>)]

check_database_health(count_fails, dir_files, listing_fails) ==
    /\ dm_ret' = [op |-> "check_database_health", count_fails |-> count_fails,
                  listing_fails |-> listing_fails,
                  result |-> CheckDatabaseHealth(vs_docs, count_fails, dir_files,
                                                 listing_fails),
                  raised |-> FALSE]
    /\ UNCHANGED <<dp_ret, retrievalVars, cacheVars, embedVars, writerVars>>

dm_return ==
    /\ dm_ret.op # "idle"
    /\ dm_ret' = DmIdle
    /\ UNCHANGED <<dp_ret, retrievalVars, cacheVars, embedVars, writerVars>>

\* the texts given to index_text: blank, of one chunk and of two chunks
IndexTexts == {<<>>, Runs(" ", 1), Runs("a", 1), Runs("a", ChunkSize + 1)}

IndexNext ==
    \/ /\ dm_ret.op = "idle"
       /\ \E force_reindex \in BOOLEAN, clear_fails \in ClearFailures,
             file_paths \in FileLists, dir_files \in FileLists,
             listing_fails \in BOOLEAN, add_fails \in BOOLEAN,
             persist_fails \in BOOLEAN :
              /\ ~force_reindex => clear_fails = "none"
              /\ file_paths # <<>> => (dir_files = <<>> /\ ~listing_fails)
              /\ ~(add_fails /\ persist_fails)
              /\ index_reference_documents(force_reindex, clear_fails, file_paths,
                     [dir_files |-> dir_files, listing_fails |-> listing_fails,
                      add_fails |-> add_fails, persist_fails |-> persist_fails])
    \/ dm_return

ManagerNext ==
    \/ /\ dm_ret.op = "idle"
       /\ \E text \in IndexTexts, source_label \in SourceLabels,
             metadata \in MetadataInputs, add_fails \in BOOLEAN,
             persist_fails \in BOOLEAN :
              index_text(text, source_label, metadata, add_fails, persist_fails)
    \/ /\ dm_ret.op = "idle"
       /\ \E count_fails \in BOOLEAN, dir_files \in FileLists,
             listing_fails \in BOOLEAN :
              check_database_health(count_fails, dir_files, listing_fails)
    \/ dm_return

(***************************************************************************)
(* Specifications: every component starts as constructed.  CacheSpec       *)
(* drives the CacheManager, EmbedSpec the EmbeddingGenerator, SearchSpec   *)
(* the semantic search and RetrievalSpec the retrieval of regulations; a   *)
(* component that is not driven stays as it is.                            *)
(***************************************************************************)
Init == CacheInit /\ EmbedInit /\ RetrievalInit /\ IndexingInit /\ WritersInit

Next ==
    \/ CacheNext \/ EmbedNext \/ StoreNext \/ SearchNext \/ HybridNext
    \/ RetrievalNext \/ ProcessNext \/ IndexNext \/ ManagerNext \/ WritersNext
    \/ MergeNext

Spec == Init /\ [][Next]_vars

CacheSpecInit ==
    /\ CacheInit /\ EmbedInit
    /\ vs_docs = <<>> /\ vs_tiebreak = "first" /\ rt_ret = RtIdle
    /\ vs_next_id = 1 /\ vs_ret = VsIdle
    /\ IndexingInit
    /\ WritersInit

CacheSpec == CacheSpecInit /\ [][CacheNext]_vars

WritersSpec == CacheSpecInit /\ [][WritersNext]_vars

EmbedSpecInit == CacheSpecInit /\ max_size = MaxSize

EmbedSpec == EmbedSpecInit /\ [][EmbedNext]_vars

\* the collection is new
StoreSpecInit == CacheSpecInit /\ max_size = MaxSize

StoreSpec == StoreSpecInit /\ [][StoreNext]_vars

ProcessSpec == StoreSpecInit /\ [][ProcessNext]_vars

IndexSpec == StoreSpecInit /\ [][IndexNext]_vars

ManagerSpec == StoreSpecInit /\ [][ManagerNext]_vars

\* semantic_search does not read the metadata of the chunks: they have none
SearchSpecInit ==
    /\ Init /\ max_size = MaxSize
    /\ \A i \in 1..Len(vs_docs) : vs_docs[i].metadata = <<>>

SearchSpec == SearchSpecInit /\ [][SearchNext]_vars

\* hybrid_search does not read the metadata either
HybridSpec == SearchSpecInit /\ [][HybridNext]_vars

\* _merge_results does not read the collection
MergeSpec == StoreSpecInit /\ [][MergeNext]_vars

\* The retrievals run over a corpus of up to MaxCorpus chunks.  Every
\* placement of the labels and the vectors is a corpus, so the other order
\* of chunks at one distance gives no further ranking of the labels.
RetrievalSpecInit ==
    /\ Init /\ max_size = MaxSize
    /\ Len(vs_docs) <= MaxCorpus
    /\ vs_tiebreak = "first"

RetrievalSpec == RetrievalSpecInit /\ [][RetrievalNext]_vars

(***************************************************************************)
(* Claims about the CacheManager, checked under CacheSpec.                 *)
(***************************************************************************)
Cached(cache) == {t \in CacheTexts : CacheLookup(cache, t) # None}

FifoAfterOverflow(cache, hist) ==
    (hist.tracked /\ Len(hist.items) = max_size + 1) =>
        /\ DictLen(cache) = max_size
        /\ CacheLookup(cache, hist.items[1]) = None
        /\ Cached(cache) = {hist.items[i] : i \in 2..(max_size + 1)}
        /\ \A i \in 1..max_size :
               cache[i].key = _generate_key(hist.items[i + 1])

\* C1: after max_size + 1 distinct texts were set in an empty namespace
\* (gets of any text in between included), the namespace holds exactly
\* max_size entries, the first text set is gone and the other max_size
\* texts are all retrievable, in both namespaces.
C1_FifoEviction ==
    /\ FifoAfterOverflow(cm_embedding_cache, cm_hist_e)
    /\ FifoAfterOverflow(cm_search_cache, cm_hist_s)

\* max_size + 1 distinct texts were set, the first one was read before the
\* last set, and a get of it now returns None
C1_Witness ==
    /\ max_size = 2
    /\ cm_hist_e.tracked /\ Len(cm_hist_e.items) = max_size + 1
    /\ cm_hist_e.read_first
    /\ cm_hist_s.tracked /\ Len(cm_hist_s.items) = max_size + 1
    /\ cm_hist_s.read_first
    /\ cm_ret.op = "get_embedding"
    /\ cm_ret.text = cm_hist_e.items[1]
    /\ cm_ret.value = None

\* C2: each namespace holds at most max_size entries, and get_cache_stats
\* reports the number of retrievable entries of each namespace and max_size.
C2_BoundedAndStats ==
    /\ Cardinality(DictKeys(cm_embedding_cache)) <= max_size
    /\ Cardinality(DictKeys(cm_search_cache)) <= max_size
    /\ DictLen(cm_embedding_cache) <= max_size
    /\ DictLen(cm_search_cache) <= max_size
    /\ cm_ret.op = "get_cache_stats" =>
           /\ cm_ret.value.embedding_cache_size = Cardinality(Cached(cm_embedding_cache))
           /\ cm_ret.value.search_cache_size = Cardinality(Cached(cm_search_cache))
           /\ cm_ret.value.max_size = max_size

\* stats taken from two full namespaces after more sets than max_size
C2_Witness ==
    /\ cm_ret.op = "get_cache_stats"
    /\ max_size = 2
    /\ cm_ret.value.embedding_cache_size = max_size
    /\ cm_ret.value.search_cache_size = max_size
    /\ ~cm_hist_e.tracked
    /\ ~cm_hist_s.tracked

(***************************************************************************)
(* Claims about the EmbeddingGenerator, checked under EmbedSpec.           *)
(***************************************************************************)
EmptyOrWhitespace(text) == \A i \in 1..Len(text) : text[i] \in Whitespace

\* C3: generate_embedding on an empty or whitespace-only text returns a
\* vector of exactly 768 zeros, asks the provider nothing and leaves the
\* embedding cache as it was.
C3_BlankTextZeroVector ==
    (eg_ret.op = "generate_embedding" /\ EmptyOrWhitespace(eg_ret.texts[1])) =>
        /\ eg_ret.results[1].times = 768
        /\ eg_ret.results[1].item = 0
        /\ eg_ret.asked = <<FALSE>>
        /\ ~eg_ret.cache_changed

\* a whitespace-only text embedded while the cache holds entries
C3_Witness ==
    /\ eg_ret.op = "generate_embedding"
    /\ eg_ret.texts = << <<" ", "\t">> >>
    /\ eg_ret.use_cache
    /\ DOMAIN eg_cache = {<<"a">>, <<"b">>}
    /\ eg_ret.results = <<ZeroVector>>

\* C4: with use_cache, a generate_embedding call on a text for which an
\* earlier generate_embedding call got the provider's vector (and no
\* clear_cache came since) returns that same vector and does not ask the
\* provider again.
C4_SecondCallIsCacheHit ==
    (eg_ret.op = "generate_embedding" /\ eg_ret.prior) =>
        /\ eg_ret.results[1] = ProviderVector(eg_first[eg_ret.texts[1]])
        /\ eg_ret.asked = <<FALSE>>

\* the second call on a text whose first call was answered with vector 2
C4_Witness ==
    /\ eg_ret.op = "generate_embedding"
    /\ eg_ret.prior
    /\ eg_ret.use_cache
    /\ eg_first[eg_ret.texts[1]] = 2
    /\ eg_ret.results = <<ProviderVector(2)>>

\* the sub-batch (counted from 1) that position i of the input falls in
SubBatchOf(r, i) == ((i - 1) \div r.batch_size) + 1

NumSubBatches(r) == (Len(r.texts) + r.batch_size - 1) \div r.batch_size

\* the positions of earlier sub-batches at which the provider answered for
\* the text of position i
LearntAt(r, i) ==
    {j \in 1..(i - 1) : /\ SubBatchOf(r, j) < SubBatchOf(r, i)
                        /\ r.texts[j] = r.texts[i]
                        /\ r.answer[j] # 0}

Maximum(S) == CHOOSE x \in S : \A y \in S : y <= x

\* what position i of the result must hold, given the cache c0 the call
\* started with and the provider's answers in the call
PositionHolds(c0, r, i) ==
    IF r.use_cache /\ r.texts[i] \in DOMAIN c0
    THEN ~r.asked[i] /\ r.results[i] = c0[r.texts[i]]
    ELSE IF r.use_cache /\ LearntAt(r, i) # {}
    THEN /\ ~r.asked[i]
         /\ r.results[i] = ProviderVector(r.answer[Maximum(LearntAt(r, i))])
    ELSE /\ r.asked[i]
         /\ IF r.failed[SubBatchOf(r, i)]
            THEN r.results[i] = Repeat(0, 768)
            ELSE r.answer[i] # 0 /\ r.results[i] = ProviderVector(r.answer[i])

\* C5: generate_embeddings_batch returns exactly len(texts) vectors in input
\* order: position i holds the cached vector of texts[i] when the cache is
\* used and has it, else the vector the provider answered for position i,
\* else the zero vector when the provider call of its sub-batch raised.
C5_BatchSameLengthInOrder ==
    [][eg_ret'.op = "generate_embeddings_batch" =>
          /\ Len(eg_ret'.results) = Len(eg_ret'.texts)
          /\ \A i \in 1..Len(eg_ret'.texts) : PositionHolds(eg_cache, eg_ret', i)]_vars

\* a batch of three in sub-batches of two, mixing a cached text, a text
\* whose call raised and a text the provider answered
C5_Witness ==
    /\ eg_ret.op = "generate_embeddings_batch"
    /\ eg_ret.use_cache
    /\ eg_ret.batch_size = 2
    /\ eg_ret.texts = << <<"a">>, <<"b">>, <<"a">> >>
    /\ eg_ret.asked = <<TRUE, FALSE, TRUE>>
    /\ eg_ret.failed = <<TRUE, FALSE>>
    /\ eg_ret.results = <<ZeroVector, ProviderVector(1), ProviderVector(2)>>

\* C6: when the provider call of a sub-batch raises, every text that call
\* was asked for gets the 768-length zero vector, the call still returns a
\* full result, and every later sub-batch is still processed (its
\* uncached texts are put to the provider and get its answer or, when that
\* call raises too, the zero vector).
C6_SubBatchFailureIsolated ==
    eg_ret.op = "generate_embeddings_batch" =>
        /\ Len(eg_ret.failed) = NumSubBatches(eg_ret)
        /\ Len(eg_ret.results) = Len(eg_ret.texts)
        /\ \A i \in 1..Len(eg_ret.texts) :
               /\ (eg_ret.asked[i] /\ eg_ret.failed[SubBatchOf(eg_ret, i)]) =>
                      eg_ret.results[i] = Repeat(0, 768)
               /\ (eg_ret.asked[i] /\ ~eg_ret.failed[SubBatchOf(eg_ret, i)]) =>
                      /\ eg_ret.answer[i] # 0
                      /\ eg_ret.results[i] = ProviderVector(eg_ret.answer[i])
               /\ (~eg_ret.use_cache \/ eg_ret.texts[i] \notin DOMAIN eg_cache) =>
                      eg_ret.asked[i]

\* the first of three sub-batches raises, the second is answered, the third
\* raises again
C6_Witness ==
    /\ eg_ret.op = "generate_embeddings_batch"
    /\ eg_ret.batch_size = 1
    /\ eg_ret.failed = <<TRUE, FALSE, TRUE>>
    /\ eg_ret.asked = <<TRUE, TRUE, TRUE>>
    /\ eg_ret.results = <<ZeroVector, ProviderVector(2), ZeroVector>>

(***************************************************************************)
(* RetrievalSystem claims: C7 under SearchSpec, C8 to C10 under            *)
(* RetrievalSpec                                                           *)
(***************************************************************************)
\* the candidates of the returned call whose score is at least min_score,
\* in the order the store returned them
PassingCandidates ==
    SelectSeq(rt_ret.candidates, LAMBDA p : p.score >= rt_ret.min_score)

\* C7: semantic_search(query, k, min_score) on a query that is not blank
\* puts one request to the store, for 2k scored candidates, and gets the
\* min(2k, size of the store) nearest chunks (none if the request fails);
\* its result is the first k of the candidates with score >= min_score, in
\* the store's order: at most k documents, every one a candidate with
\* score >= min_score, the empty list when min_score is above every
\* candidate's score, and nothing is raised.
C7_SemanticSearchFilterAndTruncate ==
    rt_ret.op = "semantic_search" =>
        /\ ~rt_ret.raised
        /\ ~BlankText(Document(rt_ret.text)) =>
              /\ rt_ret.calls = <<[k |-> 2 * rt_ret.k,
                                   query |-> Document(rt_ret.text),
                                   failed |-> rt_ret.fl[1]]>>
              /\ Len(rt_ret.candidates) =
                    IF rt_ret.fl[1] THEN 0
                    ELSE IF 2 * rt_ret.k <= Len(vs_docs) THEN 2 * rt_ret.k
                    ELSE Len(vs_docs)
        /\ Len(rt_ret.docs) <= rt_ret.k
        /\ Len(rt_ret.docs) = Min(rt_ret.k, Len(PassingCandidates))
        /\ \A i \in 1..Len(rt_ret.docs) : rt_ret.docs[i] = PassingCandidates[i].doc
        /\ \A i \in 1..Len(rt_ret.docs) :
              \E j \in 1..Len(rt_ret.candidates) :
                  /\ rt_ret.candidates[j].doc = rt_ret.docs[i]
                  /\ rt_ret.candidates[j].score >= rt_ret.min_score
        /\ (\A j \in 1..Len(rt_ret.candidates) :
                rt_ret.candidates[j].score < rt_ret.min_score) => rt_ret.docs = <<>>

\* a search that got all 2k candidates it asked for, dropped the nearest
\* for its score and cut the rest down to k
C7_Witness ==
    /\ rt_ret.op = "semantic_search"
    /\ rt_ret.k = 2
    /\ Len(rt_ret.candidates) = 4
    /\ rt_ret.candidates[1].score < rt_ret.min_score
    /\ Len(PassingCandidates) = 3
    /\ rt_ret.docs = <<rt_ret.candidates[2].doc, rt_ret.candidates[3].doc>>

\* the source label of a chunk of the store
SourceOf(chunk) == MetadataGet(chunk.metadata, "source", "Unknown")

\* the corpus of two sources Act-A and Act-B and one more chunk of one of them
DuplicateLabelCorpus ==
    /\ Len(vs_docs) = 3
    /\ {SourceOf(vs_docs[i]) : i \in 1..Len(vs_docs)} = {"Act-A", "Act-B"}

\* C8: retrieve_relevant_regulations returns no two entries with the same
\* source label, whatever k, use_hybrid and the corpus; on the corpus of
\* three chunks from the two sources Act-A and Act-B it returns exactly 2
\* entries for k = 3 when a search of the store succeeded.
C8_NoDuplicateSourceLabels ==
    rt_ret.op = "retrieve_relevant_regulations" =>
        /\ \A i, j \in 1..Len(rt_ret.regulations) :
              i # j => rt_ret.regulations[i][1] # rt_ret.regulations[j][1]
        /\ ( /\ DuplicateLabelCorpus
             /\ rt_ret.k = 3
             /\ \E c \in 1..Len(rt_ret.calls) : ~rt_ret.calls[c].failed )
           => Len(rt_ret.regulations) = 2

\* a hybrid retrieval with k = 3 over the three chunks of two sources
C8_Witness ==
    /\ rt_ret.op = "retrieve_relevant_regulations"
    /\ rt_ret.use_hybrid
    /\ rt_ret.k = 3
    /\ DuplicateLabelCorpus
    /\ SourceOf(vs_docs[1]) = SourceOf(vs_docs[3])
    /\ Len(rt_ret.calls) = 2
    /\ \A c \in 1..2 : ~rt_ret.calls[c].failed
    /\ Len(rt_ret.regulations) = 2

\* C9: retrieve_relevant_regulations raises nothing; for an empty or
\* whitespace-only document it returns [] and puts no request to the store;
\* for any other document it returns [] when the store is empty and when
\* every search of the store it made failed.
C9_NoResultsNeverRaises ==
    rt_ret.op = "retrieve_relevant_regulations" =>
        /\ ~rt_ret.raised
        /\ BlankText(Document(rt_ret.text)) =>
              rt_ret.regulations = <<>> /\ rt_ret.calls = <<>>
        /\ vs_docs = <<>> => rt_ret.regulations = <<>>
        /\ (\A c \in 1..Len(rt_ret.calls) : rt_ret.calls[c].failed) =>
              rt_ret.regulations = <<>>

\* a hybrid retrieval for a document with text, over a store with chunks,
\* both of whose searches failed
C9_Witness ==
    /\ rt_ret.op = "retrieve_relevant_regulations"
    /\ ~BlankText(Document(rt_ret.text))
    /\ vs_docs # <<>>
    /\ Len(rt_ret.calls) = 2
    /\ \A c \in 1..2 : rt_ret.calls[c].failed
    /\ rt_ret.regulations = <<>>
    /\ ~rt_ret.raised

\* C10: every request retrieve_relevant_regulations puts to the store is
\* made with the leading 500 characters of the document (the whole document
\* if it has no more), and a document that agrees with the given one on
\* its first 500 characters gets the same result from the same store, with
\* the same k and use_hybrid (and the same searches of the store failing).
C10_OnlyLeading500Characters ==
    rt_ret.op = "retrieve_relevant_regulations" =>
        /\ \A c \in 1..Len(rt_ret.calls) :
              rt_ret.calls[c].query = TextPrefix(Document(rt_ret.text), 500)
        /\ \A other \in DocumentNames \ {rt_ret.text} :
              TextPrefix(Document(other), 500) = TextPrefix(Document(rt_ret.text), 500)
                  => RetrieveRegulations(Document(other), rt_ret.k, rt_ret.use_hybrid,
                                         rt_ret.fl)
                       = [regulations |-> rt_ret.regulations,
                          calls |-> rt_ret.calls,
                          raised |-> rt_ret.raised]

\* a retrieval for a document of 501 characters whose last character would
\* change the order of the chunks, had it been part of the query
C10_Witness ==
    /\ rt_ret.op = "retrieve_relevant_regulations"
    /\ rt_ret.text = "a500b"
    /\ TextLen(Document(rt_ret.text)) = 501
    /\ \E i, j \in 1..Len(vs_docs) : vs_docs[i].vec # vs_docs[j].vec
    /\ rt_ret.calls # <<>>
    /\ rt_ret.regulations # <<>>
    /\ rt_ret.regulations[1][2] = vs_docs[Ranking(0)[1]].page_content
    /\ rt_ret.regulations[1][2] # vs_docs[Ranking(1)[1]].page_content

\* the documents of the two lists hybrid_search merged in the returned call
MergedLists == Range(rt_ret.semantic_results) \cup Range(rt_ret.keyword_results)

\* C11: hybrid_search returns at most k documents, and every document it
\* returns is an element of the list its semantic search returned or of the
\* list its keyword search returned in that call, the same object with the
\* same text and metadata; it returns no object twice.
C11_HybridSubsetAtMostK ==
    rt_ret.op = "hybrid_search" =>
        /\ Len(rt_ret.docs) <= rt_ret.k
        /\ \A i \in 1..Len(rt_ret.docs) : rt_ret.docs[i] \in MergedLists
        /\ \A i, j \in 1..Len(rt_ret.docs) :
              i # j => rt_ret.docs[i].id # rt_ret.docs[j].id

\* a hybrid search that merged more than k documents and put a document
\* of the keyword list first
C11_Witness ==
    /\ rt_ret.op = "hybrid_search"
    /\ Len(rt_ret.semantic_results) + Len(rt_ret.keyword_results) > rt_ret.k
    /\ Len(rt_ret.docs) = rt_ret.k
    /\ rt_ret.k >= 2
    /\ rt_ret.docs[1] \in Range(rt_ret.keyword_results)
    /\ rt_ret.docs[1] \notin Range(rt_ret.semantic_results)
    /\ rt_ret.docs[2] \in Range(rt_ret.semantic_results)

(***************************************************************************)
(* VectorDatabase claims, under StoreSpec                                  *)
(***************************************************************************)
\* the batch a position of the documents falls in
BatchOfPosition(i, batch_size) == ((i - 1) \div batch_size) + 1

\* the positions of the documents whose batch the store took, in order
CommittedPositions(r) ==
    SelectSeq([i \in 1..Len(r.documents) |-> i],
              LAMBDA i : ~r.fl[BatchOfPosition(i, r.batch_size)])

\* C12: add_documents puts the documents to the store in consecutive
\* batches of batch_size, every batch once and in order whether or not an
\* earlier one failed; the collection afterwards is the collection before
\* followed by the documents of the batches that did not fail, in order,
\* each under a new identifier; when the method returns, it returns these
\* identifiers in that order; for no documents it returns [] and makes no
\* store call.
C12_AddInBatchesSkippingFailures ==
    [][(vs_ret.op = "idle" /\ vs_ret'.op = "add_documents") =>
        LET r == vs_ret'
            n == Len(r.documents)
            committed == CommittedPositions(r)
        IN  /\ Len(r.calls) = (n + r.batch_size - 1) \div r.batch_size
            /\ \A b \in 1..Len(r.calls) :
                  /\ r.calls[b].batch =
                        SubSeq(r.documents, (b - 1) * r.batch_size + 1,
                               IF b * r.batch_size <= n THEN b * r.batch_size ELSE n)
                  /\ r.calls[b].failed = r.fl[b]
            /\ Len(vs_docs') = Len(vs_docs) + Len(committed)
            /\ SubSeq(vs_docs', 1, Len(vs_docs)) = vs_docs
            /\ \A j \in 1..Len(committed) :
                  /\ vs_docs'[Len(vs_docs) + j].page_content
                        = r.documents[committed[j]].page_content
                  /\ vs_docs'[Len(vs_docs) + j].metadata
                        = r.documents[committed[j]].metadata
                  /\ \A i \in 1..(Len(vs_docs) + j - 1) :
                        vs_docs'[i].chunk_id # vs_docs'[Len(vs_docs) + j].chunk_id
            /\ ~r.raised =>
                  r.result = [j \in 1..Len(committed) |->
                                 vs_docs'[Len(vs_docs) + j].chunk_id]
            /\ r.documents = <<>> =>
                  r.result = <<>> /\ ~r.raised /\ ~r.persist_called
       ]_vars

\* an add of three documents one by one whose second batch failed: the
\* first and the third are in the collection and their identifiers returned
C12_Witness ==
    /\ vs_ret.op = "add_documents"
    /\ Len(vs_ret.documents) = 3
    /\ vs_ret.batch_size = 1
    /\ vs_ret.fl = <<FALSE, TRUE, FALSE>>
    /\ ~vs_ret.raised
    /\ Len(vs_ret.result) = 2
    /\ Len(vs_docs) >= 3
    /\ vs_docs[Len(vs_docs) - 1].chunk_id = vs_ret.result[1]
    /\ vs_docs[Len(vs_docs)].chunk_id = vs_ret.result[2]
    /\ vs_docs[Len(vs_docs) - 1].metadata = vs_docs[Len(vs_docs)].metadata

\* C13: search and search_with_scores raise nothing; for an empty or
\* whitespace-only query they return [] and put no request to the store;
\* they return [] when the collection is empty and when the store's search
\* raises; they leave the collection as it was.
C13_SearchFailSoft ==
    [][(vs_ret.op = "idle" /\ vs_ret'.op \in {"search", "search_with_scores"}) =>
        /\ ~vs_ret'.raised
        /\ BlankText(Document(vs_ret'.text)) =>
              vs_ret'.result = <<>> /\ vs_ret'.calls = <<>>
        /\ vs_docs = <<>> => vs_ret'.result = <<>>
        /\ (vs_ret'.calls # <<>> /\ vs_ret'.calls[1].failed) => vs_ret'.result = <<>>
        /\ vs_docs' = vs_docs
        /\ vs_next_id' = vs_next_id
       ]_vars

\* a search for a query with text over a collection with chunks, whose
\* store call raised
C13_Witness ==
    /\ vs_ret.op = "search"
    /\ ~BlankText(Document(vs_ret.text))
    /\ vs_docs # <<>>
    /\ Len(vs_ret.calls) = 1
    /\ vs_ret.calls[1].failed
    /\ vs_ret.result = <<>>
    /\ ~vs_ret.raised

\* what delete_documents(ids, filter_dict) is to remove: the chunks of the
\* ids if ids are given, else the chunks that match the filter if one is given
ToBeDeleted(chunk, r) ==
    IF r.ids # <<>> THEN chunk.chunk_id \in Range(r.ids)
    ELSE IF r.filter_dict # <<>> THEN MatchesFilter(chunk, r.filter_dict)
    ELSE FALSE

\* C14: a delete_documents that returns True has removed exactly the
\* entries it was to remove, those of the ids or, with only a filter, those
\* whose metadata matches the filter: none of them remains and every other
\* entry is kept.
C14_DeleteRemovesMatching ==
    [][(vs_ret.op = "idle" /\ vs_ret'.op = "delete_documents" /\ vs_ret'.result) =>
        vs_docs' = SelectSeq(vs_docs, LAMBDA chunk : ~ToBeDeleted(chunk, vs_ret'))
       ]_vars

\* a delete with only the filter source = Act-A that returned True over a
\* collection that still holds a chunk of Act-A
C14_FilterDeletesNothing ==
    /\ vs_ret.op = "delete_documents"
    /\ vs_ret.ids = <<>>
    /\ vs_ret.filter_dict = ("source" :> "Act-A")
    /\ vs_ret.result
    /\ \E i \in 1..Len(vs_docs) : MatchesFilter(vs_docs[i], vs_ret.filter_dict)

\* C15: clear_collection never raises; when it returns True the collection
\* has been destroyed and made anew, so that get_collection_info reports a
\* document count of 0; when a step of the clear fails (the removal, the
\* creation of the directory, or both attempts to create the collection)
\* it returns False.
C15_ClearCollection ==
    [][(vs_ret.op = "idle" /\ vs_ret'.op = "clear_collection") =>
        /\ ~vs_ret'.raised
        /\ vs_ret'.result \in BOOLEAN
        /\ vs_ret'.result =>
              GetCollectionInfo(vs_docs', FALSE).document_count = 0
        /\ vs_ret'.fails \in {"rmtree", "mkdir", "init_both"} => ~vs_ret'.result
        /\ vs_ret'.fails \in {"none", "init_first"} => vs_ret'.result
       ]_vars

\* a collection that had received documents has been cleared with success
C15_Witness ==
    /\ vs_ret.op = "clear_collection"
    /\ vs_ret.result
    /\ vs_next_id > 1
    /\ vs_docs = <<>>

(***************************************************************************)
(* Claims about the DocumentProcessor, checked under ProcessSpec.          *)
(***************************************************************************)
\* C16: every chunk that process_text or process_file produced carries
\* 0 <= chunk_index < total_chunks, total_chunks is the number of chunks
\* the call produced, and the chunk at output position i (from 1) has
\* chunk_index i - 1, whatever metadata the caller supplied.
C16_ChunkIndexInOrder ==
    dp_ret.op \in {"process_text", "process_file"} =>
        \A i \in 1..Len(dp_ret.result) :
            LET md == dp_ret.result[i].metadata
            IN  /\ md["total_chunks"] = Len(dp_ret.result)
                /\ md["chunk_index"] = i - 1
                /\ 0 <= md["chunk_index"]
                /\ md["chunk_index"] < md["total_chunks"]

\* a text of several chunks was processed with caller metadata that sets
\* chunk_index and total_chunks, and every chunk carries the caller's values
C16_CallerIndexOverrides ==
    /\ dp_ret.op = "process_text"
    /\ "chunk_index" \in DOMAIN dp_ret.metadata
    /\ Len(dp_ret.result) > 1
    /\ \A i \in 1..Len(dp_ret.result) :
           /\ dp_ret.result[i].metadata["chunk_index"] = dp_ret.metadata["chunk_index"]
           /\ dp_ret.result[i].metadata["total_chunks"] = dp_ret.metadata["total_chunks"]

\* C17: in the metadata of a chunk the caller's keys win over the generated
\* ones, except source: the chunk's source is the source label of the call
\* even when the caller's metadata has a source key.
C17_SourceIsTheLabel ==
    dp_ret.op \in {"process_text", "process_file"} =>
        \A i \in 1..Len(dp_ret.result) :
            LET md == dp_ret.result[i].metadata
            IN  /\ md["source"] = dp_ret.source_label
                /\ \A key \in (DOMAIN dp_ret.metadata) \ {"source"} :
                       md[key] = dp_ret.metadata[key]

\* a file was processed under a label with caller metadata that has a
\* source key, and the chunk carries the caller's source, not the label
C17_CallerSourceOverrides ==
    /\ dp_ret.op = "process_file"
    /\ "source" \in DOMAIN dp_ret.metadata
    /\ dp_ret.result # <<>>
    /\ dp_ret.result[1].metadata["source"] = dp_ret.metadata["source"]
    /\ dp_ret.result[1].metadata["source"] # dp_ret.source_label

(***************************************************************************)
(* Claims about the DatabaseManager: the indexing of files under           *)
(* IndexSpec, index_text and the health check under ManagerSpec.           *)
(***************************************************************************)
\* C18: index_reference_documents always returns the summary of indexed,
\* failed and errors: every file of the list to index is gone through once
\* and in order, indexed + failed is the number of files, and there is a
\* message in errors for every failed file.
C18_IndexingAlwaysSummarises ==
    dm_ret.op = "index_reference_documents" =>
        /\ ~dm_ret.raised
        /\ DOMAIN dm_ret.result = {"indexed", "failed", "errors"}
        /\ dm_ret.processed = [i \in 1..Len(dm_ret.files) |-> i]
        /\ dm_ret.result.indexed + dm_ret.result.failed = Len(dm_ret.files)
        /\ Len(dm_ret.result.errors) >= dm_ret.result.failed

\* the listing of the reference directory raised, and so did the call
C18_ListingRaises ==
    /\ dm_ret.op = "index_reference_documents"
    /\ dm_ret.raised
    /\ dm_ret.result = None

\* C19: index_text never raises and returns a boolean; it returns True
\* only when the call added chunks of the text to the collection, and
\* False when the text is blank and when adding to the store fails.
C19_IndexTextReportsAdding ==
    [][(dm_ret.op = "idle" /\ dm_ret'.op = "index_text") =>
        /\ ~dm_ret'.raised
        /\ dm_ret'.result \in BOOLEAN
        /\ dm_ret'.result =>
              /\ Len(vs_docs') = Len(vs_docs) + Len(dm_ret'.documents)
              /\ Len(dm_ret'.documents) > 0
              /\ \A i \in 1..Len(dm_ret'.documents) :
                     vs_docs'[Len(vs_docs) + i].page_content =
                         dm_ret'.documents[i].page_content
        /\ BlankText(dm_ret'.text) => ~dm_ret'.result
        /\ (dm_ret'.add_fails \/ dm_ret'.persist_fails) => ~dm_ret'.result
       ]_vars

\* index_text returned True for a text whose batch the store refused, and
\* the collection holds no chunk
C19_TrueWithNothingAdded ==
    /\ dm_ret.op = "index_text"
    /\ dm_ret.result
    /\ dm_ret.add_fails
    /\ vs_docs = <<>>

\* C20: check_database_health never raises and reports one of three
\* statuses: error when reading the statistics of the store fails, and
\* otherwise healthy for a collection of at least one chunk and empty for
\* one of none, with the count of the collection as document_count.
C20_HealthStatus ==
    dm_ret.op = "check_database_health" =>
        /\ ~dm_ret.raised
        /\ dm_ret.result.status \in {"healthy", "empty", "error"}
        /\ (dm_ret.count_fails \/ dm_ret.listing_fails) =>
               dm_ret.result.status = "error"
        /\ ~(dm_ret.count_fails \/ dm_ret.listing_fails) =>
               /\ Len(vs_docs) >= 1 => dm_ret.result.status = "healthy"
               /\ Len(vs_docs) = 0 => dm_ret.result.status = "empty"
               /\ dm_ret.result.document_count = Len(vs_docs)

\* counting a collection that holds chunks failed, and the check reports
\* an empty store with a document count of 0
C20_FailedCountReportedEmpty ==
    /\ dm_ret.op = "check_database_health"
    /\ dm_ret.count_fails
    /\ ~dm_ret.listing_fails
    /\ Len(vs_docs) >= 1
    /\ dm_ret.result.status = "empty"
    /\ dm_ret.result.document_count = 0

(***************************************************************************)
(* Further claims about the CacheManager, checked under CacheSpec.         *)
(***************************************************************************)
\* what a set on a namespace may do to it; a set always leaves its own key
\* in the namespace, so it inserted no new key exactly when no key of the
\* namespace after it is missing before it
EvictsOnlyForNewKey(before, after) ==
    (DictLen(before) = max_size /\ DictKeys(after) \subseteq DictKeys(before)) =>
        /\ DictKeys(after) = DictKeys(before)
        /\ DictLen(after) = max_size

\* C21: in a namespace at capacity a set with a text whose key is present
\* replaces the value and leaves the set of cached keys and the size
\* max_size as they were; and a set in one namespace leaves the other
\* namespace as it is.
C21_SetEvictsOnlyForNewKey ==
    [][/\ cm_ret'.op = "set_embedding" =>
            /\ EvictsOnlyForNewKey(cm_embedding_cache, cm_embedding_cache')
            /\ cm_search_cache' = cm_search_cache
       /\ cm_ret'.op = "set_search_result" =>
            /\ EvictsOnlyForNewKey(cm_search_cache, cm_search_cache')
            /\ cm_embedding_cache' = cm_embedding_cache
      ]_vars

(***************************************************************************)
(* The writers of the cache running at once, checked under WritersSpec.    *)
(***************************************************************************)
\* a namespace holds more than max_size entries
NamespaceOverflow ==
    \E ns \in Namespaces : DictLen(NamespaceCache(ns)) > max_size

\* the delete of a writer found its key gone, or its dict empty
WriterLostItsKey ==
    \E t \in Writers :
        /\ cm_writers.threads[t].pc = "done"
        /\ cm_writers.threads[t].raised \in {"KeyError", "StopIteration"}

\* C22: the sequence of set_embedding and set_search_result (read the
\* size, delete the oldest key when full, insert) is not atomic.  A
\* namespace with more than max_size entries and a delete of a key the
\* other writer already removed are reachable (C22_Witness), and they come
\* from the interleaving alone: they occur only after two writers were in
\* the method at once.
C22_RaceOnlyWhenInterleaved ==
    (NamespaceOverflow \/ WriterLostItsKey) => cm_writers.overlapped

\* two writers on one namespace have left more than max_size entries in
\* it, and the delete of a writer has met a key that was already removed
C22_Witness ==
    /\ \E ns \in Namespaces :
           /\ DictLen(NamespaceCache(ns)) > max_size
           /\ \A t \in Writers :
                  cm_writers.threads[t].pc = "done" /\ cm_writers.threads[t].ns = ns
    /\ \E t \in Writers : cm_writers.threads[t].raised = "KeyError"

(***************************************************************************)
(* Further claims about the EmbeddingGenerator, checked under EmbedSpec.   *)
(***************************************************************************)
\* the call that has just returned used the cache and the provider did
\* not fail in it
CachingCallWithoutFailure(ret) ==
    /\ ret.op \in {"generate_embedding", "generate_embeddings_batch"}
    /\ ret.use_cache
    /\ \A b \in 1..Len(ret.failed) : ~ret.failed[b]

\* C23: with use_cache and a provider that does not fail, the provider is
\* asked for a text at most once until clear_cache: a call asks for no
\* text that an earlier call left in the cache, and for no text twice,
\* also when the text occurs several times in one batch.
C23_AskedOncePerText ==
    [][(eg_ret.op = "idle" /\ CachingCallWithoutFailure(eg_ret')) =>
        \A i \in 1..Len(eg_ret'.texts) :
            eg_ret'.asked[i] =>
                /\ eg_ret'.texts[i] \notin DOMAIN eg_cache
                /\ \A j \in 1..Len(eg_ret'.texts) :
                       (j # i /\ eg_ret'.texts[j] = eg_ret'.texts[i]) => ~eg_ret'.asked[j]
       ]_vars

\* one batch call with the cache in use held a text twice, and the
\* provider was asked for it at both positions
C23_AskedTwiceInOneBatch ==
    /\ CachingCallWithoutFailure(eg_ret)
    /\ \E i, j \in 1..Len(eg_ret.texts) :
           /\ i < j
           /\ eg_ret.texts[i] = eg_ret.texts[j]
           /\ eg_ret.asked[i] /\ eg_ret.asked[j]

\* the provider was asked for position i of the call ret and raised
FailedAt(ret, i) == ret.asked[i] /\ ret.failed[SubBatchOf(ret, i)]

\* C29: the zero vector that stands for a failure of the provider is never
\* written to the embedding cache, by generate_embedding and by
\* generate_embeddings_batch: the cache holds no zero vector, a call adds
\* no text for which the provider failed (a call in which it only failed
\* leaves the cache unchanged), and a text that is not cached is put to
\* the provider again, whose vector is then returned.
C29_FallbackNotCached ==
    /\ [](\A text \in DOMAIN eg_cache : eg_cache[text] # ZeroVector)
    /\ [][(eg_ret.op = "idle" /\
           eg_ret'.op \in {"generate_embedding", "generate_embeddings_batch"}) =>
            /\ \A i \in 1..Len(eg_ret'.texts) :
                   /\ FailedAt(eg_ret', i) =>
                         /\ eg_ret'.results[i] = ZeroVector
                         /\ eg_ret'.texts[i] \in DOMAIN eg_cache' =>
                               \/ eg_ret'.texts[i] \in DOMAIN eg_cache
                               \/ \E j \in 1..Len(eg_ret'.texts) :
                                      /\ eg_ret'.texts[j] = eg_ret'.texts[i]
                                      /\ eg_ret'.asked[j] /\ ~FailedAt(eg_ret', j)
                   /\ (~NotTextOrBlank(eg_ret'.texts[i]) /\
                       eg_ret'.texts[i] \notin DOMAIN eg_cache /\
                       SubBatchOf(eg_ret', i) = 1) => eg_ret'.asked[i]
                   /\ (eg_ret'.asked[i] /\ ~FailedAt(eg_ret', i)) =>
                         eg_ret'.results[i] = ProviderVector(eg_ret'.answer[i])
            /\ (\A i \in 1..Len(eg_ret'.texts) :
                    eg_ret'.asked[i] => FailedAt(eg_ret', i)) => eg_cache' = eg_cache
          ]_vars

\* one batch call put the same text to the provider in two sub-batches:
\* the provider failed in the first and answered in the second, which
\* returned the provider's vector and cached it
C29_Witness ==
    /\ eg_ret.op = "generate_embeddings_batch"
    /\ eg_ret.use_cache
    /\ \E i, j \in 1..Len(eg_ret.texts) :
           /\ i < j
           /\ eg_ret.texts[i] = eg_ret.texts[j]
           /\ FailedAt(eg_ret, i)
           /\ eg_ret.results[i] = ZeroVector
           /\ eg_ret.asked[j] /\ ~FailedAt(eg_ret, j)
           /\ eg_ret.results[j] = ProviderVector(eg_ret.answer[j])
           /\ eg_cache[eg_ret.texts[j]] = eg_ret.results[j]

(***************************************************************************)
(* Claims about the rank fusion, checked under MergeSpec and HybridSpec.   *)
(***************************************************************************)
\* the positions of the list at which the object id stands
PositionsOf(id, list) == {i \in 1..Len(list) : list[i].id = id}

\* weight * (1 - idx/n) + weight for the object at position i (idx = i - 1)
\* of a list of n, scaled as DocScore: times n, times the length m of the
\* other list (1 for an empty list)
RankShareWithBonus(weight, i, n, m) ==
    weight * (n - (i - 1)) * (IF m = 0 THEN 1 ELSE m)
        + weight * n * (IF m = 0 THEN 1 ELSE m)

RECURSIVE SumOver(_, _, _, _)
SumOver(S, weight, n, m) ==
    IF S = {} THEN 0
    ELSE LET i == CHOOSE x \in S : TRUE
         IN  RankShareWithBonus(weight, i, n, m) + SumOver(S \ {i}, weight, n, m)

\* C24: the fused score of a result of _merge_results is the sum, over
\* the semantic and the keyword list that hold it, of the method's
\* weight * (1 - idx/n) and a flat bonus of the method's weight: the bonus
\* counts for the keyword list as for the semantic list.
C24_BonusForBothLists ==
    rt_ret.op = "_merge_results" =>
        \A p \in 1..Len(rt_ret.docs) :
            rt_ret.scores[p] =
                SumOver(PositionsOf(rt_ret.docs[p].id, rt_ret.semantic_results),
                        rt_ret.weights[1], Len(rt_ret.semantic_results),
                        Len(rt_ret.keyword_results))
                + SumOver(PositionsOf(rt_ret.docs[p].id, rt_ret.keyword_results),
                          rt_ret.weights[2], Len(rt_ret.keyword_results),
                          Len(rt_ret.semantic_results))

\* an object that only the keyword list holds, alone in it, has the score
\* keyword_weight * (1 - 0/1) with no bonus added
C24_KeywordWithoutBonus ==
    /\ rt_ret.op = "_merge_results"
    /\ rt_ret.weights[2] > 0
    /\ rt_ret.semantic_results = <<>>
    /\ Len(rt_ret.keyword_results) = 1
    /\ rt_ret.scores = <<rt_ret.weights[2]>>

\* the place at which the object id is first seen when the semantic list
\* is gone through before the keyword list
FirstSeen(id, ret) ==
    CHOOSE i \in PositionsOf(id, ret.semantic_results \o ret.keyword_results) :
        \A j \in PositionsOf(id, ret.semantic_results \o ret.keyword_results) : i <= j

\* C25: the list _merge_results returns is sorted by falling total score,
\* and results of the same score stand in the order they were first seen,
\* the semantic list before the keyword list.
C25_SortedStable ==
    rt_ret.op = "_merge_results" =>
        \A p, q \in 1..Len(rt_ret.docs) :
            p < q =>
                /\ rt_ret.scores[p] >= rt_ret.scores[q]
                /\ rt_ret.scores[p] = rt_ret.scores[q] =>
                       FirstSeen(rt_ret.docs[p].id, rt_ret) <
                           FirstSeen(rt_ret.docs[q].id, rt_ret)

\* three results: the first with a higher score than the others, which
\* are one of the semantic and one of the keyword list with the same
\* score that is not zero
C25_Witness ==
    /\ rt_ret.op = "_merge_results"
    /\ Len(rt_ret.docs) = 3
    /\ rt_ret.scores[1] > rt_ret.scores[2]
    /\ rt_ret.scores[2] = rt_ret.scores[3]
    /\ rt_ret.scores[3] > 0
    /\ PositionsOf(rt_ret.docs[2].id, rt_ret.semantic_results) # {}
    /\ PositionsOf(rt_ret.docs[3].id, rt_ret.semantic_results) = {}

\* the two documents are one chunk of the collection: the same text under
\* the same metadata (source and chunk_index among it)
SameChunk(d, e) == d.page_content = e.page_content /\ d.metadata = e.metadata

\* C26: the ranking hybrid_search returns holds no chunk twice: a chunk
\* that both the semantic and the keyword search returned stands once in
\* the fused result.
C26_NoChunkTwice ==
    (rt_ret.op = "hybrid_search" /\ ~rt_ret.raised) =>
        \A i, j \in 1..Len(rt_ret.docs) :
            i # j => ~SameChunk(rt_ret.docs[i], rt_ret.docs[j])

\* a chunk that both searches returned stands in the result twice, as the
\* object of the semantic list and as the object of the keyword list
C26_ChunkOfBothListsTwice ==
    /\ rt_ret.op = "hybrid_search"
    /\ ~rt_ret.raised
    /\ \E i, j \in 1..Len(rt_ret.docs) :
          /\ i < j
          /\ SameChunk(rt_ret.docs[i], rt_ret.docs[j])
          /\ rt_ret.docs[i] \in Range(rt_ret.semantic_results)
          /\ rt_ret.docs[j] \in Range(rt_ret.keyword_results)

(***************************************************************************)
(* Claims about retrieve_relevant_regulations, checked under RetrievalSpec *)
(***************************************************************************)
\* the ranked list of the search the returned call chose: hybrid_search or
\* semantic_search, for the query of the document and the same k
ChosenSearch ==
    IF rt_ret.use_hybrid
    THEN hybrid_search(QueryOf(Document(rt_ret.text)), rt_ret.k,
                       DefaultSemanticWeight, DefaultKeywordWeight, rt_ret.fl).docs
    ELSE semantic_search(QueryOf(Document(rt_ret.text)), rt_ret.k,
                         DefaultMinScore, rt_ret.fl[1], 1).docs

\* the positions of a ranked list that hold the highest-ranked chunk of
\* their source label, in rising order
FirstOfSource(docs) ==
    SelectSeq(List([i \in 1..Len(docs) |-> i]),
              LAMBDA i : \A j \in 1..(i - 1) : SourceOf(docs[j]) # SourceOf(docs[i]))

\* the label of a chunk: its source, "Unknown" for a chunk without one
LabelOf(doc) ==
    IF "source" \in DOMAIN doc.metadata THEN doc.metadata["source"] ELSE "Unknown"

\* C27: for a document that is not blank, the result of
\* retrieve_relevant_regulations is the ranked list of the chosen search
\* (hybrid_search or semantic_search with the same k) restricted to the
\* first chunk of each source label, in the same order, as (label, text)
\* pairs; it has at most k entries and a chunk without a source has the
\* label "Unknown".
C27_FirstChunkOfEachSource ==
    (rt_ret.op = "retrieve_relevant_regulations" /\ ~BlankText(Document(rt_ret.text))) =>
        LET docs == ChosenSearch
            first == FirstOfSource(docs)
        IN  /\ Len(rt_ret.regulations) = Len(first)
            /\ \A n \in 1..Len(first) :
                  rt_ret.regulations[n] =
                      <<LabelOf(docs[first[n]]), docs[first[n]].page_content>>
            /\ Len(rt_ret.regulations) <= rt_ret.k

\* a retrieval whose search ranked a second chunk of a source before the
\* only chunk of another source, and a chunk without a source
C27_Witness ==
    /\ rt_ret.op = "retrieve_relevant_regulations"
    /\ Len(rt_ret.regulations) >= 2
    /\ Len(ChosenSearch) > Len(rt_ret.regulations)
    /\ \E i \in 1..Len(ChosenSearch) :
          /\ i \notin Range(FirstOfSource(ChosenSearch))
          /\ \E n \in 1..Len(FirstOfSource(ChosenSearch)) : FirstOfSource(ChosenSearch)[n] > i
    /\ \E n \in 1..Len(rt_ret.regulations) : rt_ret.regulations[n][1] = "Unknown"

(***************************************************************************)
(* Claims about the indexing of reference documents, under IndexSpec.      *)
(***************************************************************************)
\* the chunks are the last entries of the collection, in their order
StoredOnTop(collection, chunks) ==
    /\ Len(collection) >= Len(chunks)
    /\ \A i \in 1..Len(chunks) :
          /\ collection[Len(collection) - Len(chunks) + i].page_content =
                 chunks[i].page_content
          /\ collection[Len(collection) - Len(chunks) + i].metadata = chunks[i].metadata

\* C28: a failing sub-batch of the add to the vector store is recorded in
\* the summary index_reference_documents returns: when the summary counts
\* no failed file and holds no error, the chunks of the indexed files are
\* in the collection.
C28_SummaryRecordsFailedBatch ==
    [][(dm_ret.op = "idle" /\ dm_ret'.op = "index_reference_documents"
            /\ ~dm_ret'.raised
            /\ dm_ret'.result.failed = 0 /\ dm_ret'.result.errors = <<>>)
        => StoredOnTop(vs_docs', dm_ret'.all_documents)]_vars

\* the store refused the batch of the only file: the summary counts the
\* file as indexed with no error, and the collection is empty
C28_IndexedButNotStored ==
    /\ dm_ret.op = "index_reference_documents"
    /\ ~dm_ret.raised
    /\ dm_ret.add_fails
    /\ dm_ret.result = [indexed |-> 1, failed |-> 0, errors |-> <<>>]
    /\ dm_ret.all_documents # <<>>
    /\ vs_docs = <<>>

\* the messages index_reference_documents puts into errors
IndexingMessages ==
    {"Unsupported file type", "Error processing", "No content extracted",
     "Failed to add documents to database"}

\* C30: when the clear of index_reference_documents(force_reindex=True)
\* returns False, the indexing goes on: the chunks of the files are added
\* on top of what the collection still holds (all it held, or nothing),
\* and the summary holds no error entry for the clear: its errors are the
\* ones of the files and of the add.
C30_FailedClearIgnored ==
    [][(dm_ret.op = "idle" /\ dm_ret'.op = "index_reference_documents"
            /\ dm_ret'.force_reindex /\ dm_ret'.clear_fails # "none"
            /\ ~dm_ret'.raised)
        => /\ dm_ret'.processed = [i \in 1..Len(dm_ret'.files) |-> i]
           /\ dm_ret'.result.indexed + dm_ret'.result.failed = Len(dm_ret'.files)
           /\ \A e \in 1..Len(dm_ret'.result.errors) :
                 dm_ret'.result.errors[e].msg \in IndexingMessages
           /\ Len(dm_ret'.result.errors) =
                 dm_ret'.result.failed
                     + (IF dm_ret'.persist_fails /\ dm_ret'.all_documents # <<>>
                        THEN 1 ELSE 0)
           /\ \E kept \in {vs_docs, <<>>} :
                 IF dm_ret'.add_fails
                 THEN vs_docs' = kept
                 ELSE /\ Len(vs_docs') = Len(kept) + Len(dm_ret'.all_documents)
                      /\ SubSeq(vs_docs', 1, Len(kept)) = kept
                      /\ StoredOnTop(vs_docs', dm_ret'.all_documents)]_vars

\* a forced reindex whose clear failed and left the one chunk of the
\* collection: a new chunk stands after it and the summary has no error
C30_Witness ==
    /\ dm_ret.op = "index_reference_documents"
    /\ dm_ret.force_reindex
    /\ dm_ret.clear_fails # "none"
    /\ dm_ret.result = [indexed |-> 1, failed |-> 0, errors |-> <<>>]
    /\ Len(dm_ret.all_documents) = 1
    /\ Len(vs_docs) = 2
    /\ vs_docs[1].chunk_id < vs_next_id - 1
    /\ vs_docs[2].page_content = dm_ret.all_documents[1].page_content

====
